---- MODULE Spec2Model ----
(***************************************************************************)
(* Model of the resilience machinery of bodrovis/lokex:                    *)
(*   - the retry controller  Client.withExpBackoff   (client/client.go)    *)
(*   - the process poller     Client.PollProcesses    (client/client.go)    *)
(*   - the error classifier   apierr.IsRetryable      (apierr/retryable.go) *)
(*   - the archive extractor  zipx.Unzip, unzipSafe   (client/download.go)  *)
(*   - the bundle download    DownloadAndUnzip        (client/download.go)  *)
(*                                                                         *)
(* Durations are integers counted in milliseconds.  Errors are modelled as *)
(* wrap chains (outermost layer first), the shape errors.Is / errors.As    *)
(* walk; the nil error is the empty chain.                                 *)
(***************************************************************************)
EXTENDS Integers, Sequences, FiniteSets, TLC

(* ------------------------------------------------------------------ *)
(* Bounds of the model                                                 *)
(* ------------------------------------------------------------------ *)
MaxRetriesCfg == 2        \* Client.MaxRetries ranges over -1..MaxRetriesCfg
MaxInitialBackoffCfg == 2 \* Client.InitialBackoff ranges over 0..this (ms)
MaxMaxBackoffCfg == 3     \* Client.MaxBackoff ranges over 0..this (ms)
MaxIDs == 2               \* length of the processIDs argument
MaxPollInitialWaitCfg == 1 \* Client.PollInitialWait ranges over 0..this (ms)
MaxPollMaxWaitCfg == 3    \* Client.PollMaxWait ranges over 1..this (ms)
MaxStepTime == 1          \* a request, the call entry or a timer lag takes 0..this ms
DurationBits == 14        \* width of time.Duration (an int64 in the program)
MaxWrap == 2              \* fmt.Errorf("...: %w") layers put around an error
MaxFlowRetries == 1       \* Client.MaxRetries of the flows ranges over 0..this

(* ------------------------------------------------------------------ *)
(* Program constants (milliseconds)                                    *)
(* ------------------------------------------------------------------ *)
floorInitialBackoff == 50
floorMaxBackoff == 2000
floorDelay == 1
defaultMaxRetries == 3
defaultInitialBackoff == 400
defaultMaxBackoff == 5000
defaultJitterBase == 300
defaultPollInitialWait == 1000
defaultPollMaxWait == 120000
pollSleepFloor == 10

VARIABLES
  \* ---- Client configuration (fields of Client)
  MaxRetries, InitialBackoff, MaxBackoff,
  \* ---- the context handed to the call: "" while live, else its Err()
  ctxErr,
  \* ---- withExpBackoff: locals and position
  bpc,       \* "idle" | "op" | "select" | "raced" | "done"
  label,     \* the label argument
  attempt,   \* loop counter
  backoff,   \* current base backoff
  delay,     \* duration of the armed timer (0 when no timer is armed)
  lastErr,   \* lastErr local
  ret,       \* returned error (Nil = nil)
  calls,     \* history: one record per invocation of op
  opErr,     \* history: the error the latest invocation of op returned
  sleeps,    \* history: number of backoff sleeps that ran to completion
  \* ---- Client configuration of the poller
  PollInitialWait, PollMaxWait,
  \* ---- PollProcesses: argument, locals and position
  processIDs, \* the processIDs argument: a sequence of strings
  ppc,        \* "idle" | "top" | "round" | "sleep" | "done"
  wait,       \* wait local
  maxWait,    \* maxWait local
  elapsed,    \* time.Since(start)
  processMap, \* processMap local: tracked id -> QueuedProcess
  pending,    \* pending local: set of tracked ids
  todo,       \* ids the running `for id := range pending` has yet to visit
  sleepFor,   \* sleep local while blocked in the inter-round select
  results,    \* returned slice
  pollErr,    \* returned error (Nil = nil)
  reqs,       \* history: tracked id -> number of status requests sent
  lastOutcome,\* history: tracked id -> class of its latest request
  lastSeen,   \* history: tracked id -> status in its latest decoded response
  ctxAtEntry, \* history: ctx.Err() at the moment PollProcesses was called
  \* ---- the extractor (zipx.Unzip / unzipSafe): arguments, locals, position
  zfn,       \* "" | "Unzip" | "unzipSafe": the function that is running
  archive,   \* r.File: the entries of the opened archive, in archive order
  destDir,   \* destAbs: the destination root, a sequence of path segments
  policy,    \* the Policy argument (the const block for unzipSafe)
  zpc,       \* "idle" | "loop" | "done"
  zi,        \* index of the entry the loop visits next
  total,     \* total local
  disk,      \* what the run has put on disk: absolute path -> node
  zerr,      \* returned error (Nil = nil)
  visited,   \* history: per visited entry, what the loop body did with it
  \* ---- Downloader.DownloadAndUnzip: arguments, locals, position
  dpc,       \* "idle" | "retry" | "unzip" | "done"
  bundleURL, \* the bundleURL argument: a string
  tmpZip,    \* content of the temporary file at tmpPath
  gets,      \* history: number of GET requests handed to the HTTP client
  dret,      \* returned error (Nil = nil)
  \* ---- one call of a function of package apierr
  fpc,       \* "idle" | "call" | "done"
  func,      \* "" | "IsRetryable" | "JitteredBackoff" | "Parse"
  farg,      \* the argument (for Parse the pair of body and status)
  fret,      \* the returned value
  \* ---- the flows built on doWithRetry: FetchBundle, FetchBundleAsync,
  \* ---- Upload, DownloadAsync
  apc,       \* "idle" | "kickoff" | "poll" | "fetched" | "download" | "done"
  flow,      \* "" or the name of the running flow
  reply,     \* the response struct doRequest decodes into (v)
  aret,      \* returned values: url, pid and err (Nil = nil)
  posts      \* history: number of POST requests handed to the HTTP client

bvars == <<MaxRetries, InitialBackoff, MaxBackoff, bpc, label, attempt,
           backoff, delay, lastErr, ret, calls, opErr, sleeps>>
pvars == <<PollInitialWait, PollMaxWait, processIDs, ppc, wait, maxWait,
           elapsed, processMap, pending, todo, sleepFor, results, pollErr,
           reqs, lastOutcome, lastSeen, ctxAtEntry>>
zvars == <<zfn, archive, destDir, policy, zpc, zi, total, disk, zerr, visited>>
dvars == <<dpc, bundleURL, tmpZip, gets, dret>>
fvars == <<fpc, func, farg, fret>>
avars == <<apc, flow, reply, aret, posts>>
vars == <<bvars, pvars, ctxErr, zvars, dvars, fvars, avars>>

(* ------------------------------------------------------------------ *)
(* Errors                                                              *)
(* ------------------------------------------------------------------ *)
Nil == <<>>

\* One layer of an error chain.  tm says whether the layer's type has a
\* Timeout() method and what it answers: "none" | "true" | "false".
\* at is the attempt that produced the error (-1 when not from op).
Layer(kind, status, tm, lbl, n, at) ==
  [kind |-> kind, status |-> status, tm |-> tm, label |-> lbl, n |-> n, at |-> at]

\* *apierr.APIError with the given HTTP status
APIError(status, at) == <<Layer("api", status, "none", "", 0, at)>>
\* sentinel errors and transport errors
Leaf(kind, at) ==
  <<Layer(kind, 0,
          IF kind \in {"timeout", "deadline"} THEN "true"
          ELSE IF kind \in {"neterr", "ECONNRESET", "ECONNABORTED"} THEN "false"
          ELSE "none",
          "", 0, at)>>
\* fmt.Errorf("<lbl> ...: %w", e)
Wrap(lbl, n, e) == <<Layer("wrap", 0, "none", lbl, n, -1)>> \o e

\* context.Canceled / context.DeadlineExceeded as returned by ctx.Err()
CtxErrValue(k) == Leaf(k, -1)

\* errors.Is(err, sentinel)
ErrorsIs(err, kind) == \E i \in 1..Len(err) : err[i].kind = kind

\* errors.As(err, &to) && to.Timeout(): the first layer with a Timeout
\* method is the one asked
HasTimeout(err) ==
  \E i \in 1..Len(err) :
     /\ err[i].tm # "none"
     /\ \A j \in 1..(i-1) : err[j].tm = "none"
     /\ err[i].tm = "true"

\* variant: 429 Too Many Requests is left out
RetryableStatuses_Without429 == {408, 425, 500, 502, 503, 504}

RetryableStatuses == {408, 425, 429, 500, 502, 503, 504}

\* errors.As(err, &apiErr): the first *APIError in the chain
FirstAPI(err) ==
  LET idx == {i \in 1..Len(err) : err[i].kind = "api"}
  IN  IF idx = {} THEN 0 ELSE CHOOSE i \in idx : \A j \in idx : i <= j

\* variant: an error of json.Unmarshal counts as transient
IsRetryable_DecodeToo(err) ==
  \/ HasTimeout(err)
  \/ ErrorsIs(err, "unexpectedEOF")
  \/ ErrorsIs(err, "EOF")
  \/ ErrorsIs(err, "closedPipe")
  \/ ErrorsIs(err, "ECONNRESET")
  \/ ErrorsIs(err, "jsonSyntax")
  \/ /\ FirstAPI(err) # 0
     /\ err[FirstAPI(err)].status \in RetryableStatuses

IsRetryable(err) ==
  \/ HasTimeout(err)
  \/ ErrorsIs(err, "unexpectedEOF")
  \/ ErrorsIs(err, "EOF")
  \/ ErrorsIs(err, "closedPipe")
  \/ ErrorsIs(err, "ECONNRESET")
  \/ /\ FirstAPI(err) # 0
     /\ err[FirstAPI(err)].status \in RetryableStatuses

(* ------------------------------------------------------------------ *)
(* apierr.JitteredBackoff: the set of values one call may return       *)
(* ------------------------------------------------------------------ *)
\* time.Duration is a signed integer of fixed width: sums wrap around
MaxDuration == 2^(DurationBits - 1) - 1
Duration(x) == ((x + 2^(DurationBits - 1)) % 2^DurationBits) - 2^(DurationBits - 1)

JitteredBackoff(base) ==
  LET b == IF base <= 0 THEN defaultJitterBase ELSE base
  IN  {Duration((b \div 2) + delta) : delta \in 0..(b - 1)}

(* ------------------------------------------------------------------ *)
(* withExpBackoff                                                      *)
(* ------------------------------------------------------------------ *)
\* floors applied at entry
BackoffInitial == IF InitialBackoff <= 0 THEN floorInitialBackoff ELSE InitialBackoff
BackoffMax == IF MaxBackoff <= 0 THEN floorMaxBackoff ELSE MaxBackoff

\* the errors op may return on a given attempt
OpErrors(at) ==
  {APIError(s, at) : s \in {400, 404, 429, 500}}
    \cup {Leaf(k, at) : k \in {"timeout", "unexpectedEOF", "ECONNABORTED",
                               "canceled", "other"}}
    \cup {Wrap("send request", 0, Leaf("neterr", at)),
          Wrap("zip validate", 0, Leaf("unexpectedEOF", at))}

\* the value returned when the loop bails out after a failed attempt
BailError(lbl, att, err) ==
  IF lbl # "" THEN Wrap(lbl, att + 1, err) ELSE err

\* the value returned when the context ends the sleep
CtxError(lbl, k) ==
  IF lbl # "" THEN Wrap(lbl, 0, CtxErrValue(k)) ELSE CtxErrValue(k)

\* where the loop stands once the timer is armed: blocked in the select
\* ("select"), or, when ctx.Done() was closed already, about to run a
\* select that finds ctx.Done() ready and, if the goroutine was held up
\* for the length of the delay, the timer too ("raced")
SelectState(ctx) == IF ctx # "" THEN "raced" ELSE "select"

\* variant: the delay is floored but not capped
ClampDelay_NoCap(d, max) == IF d <= 0 THEN floorDelay ELSE d

\* delay armed after a failed, retryable attempt
ClampDelay(d, max) ==
  LET d1 == IF d <= 0 THEN floorDelay ELSE d
  IN  IF d1 > max THEN max ELSE d1

\* variant: the exhaustion test is off by one
ShouldBail_OffByOne(err, att, maxRetries) ==
  ~IsRetryable(err) \/ att > maxRetries

\* variant: the class of the error is not consulted
ShouldBail_IgnoresClass(err, att, maxRetries) ==
  att >= maxRetries

\* the retry decision after a failed attempt: TRUE = stop
ShouldBail(err, att, maxRetries) ==
  ~IsRetryable(err) \/ att >= maxRetries

\* variant: the doubled backoff is not capped
NextBackoff_Uncapped(b, max) == Duration(b * 2)

\* next base backoff: backoff *= 2, then the cap
NextBackoff(b, max) ==
  LET doubled == Duration(b * 2)
  IN  IF doubled > max THEN max ELSE doubled

\* entry of withExpBackoff: floors and backoff := initial
BackoffEnter(lbl) ==
  /\ UNCHANGED <<pvars, zvars, dvars, fvars, avars>>
  /\ bpc = "idle"
  /\ bpc' = "op"
  /\ label' = lbl
  /\ attempt' = 0
  /\ backoff' = BackoffInitial
  /\ UNCHANGED <<MaxRetries, InitialBackoff, MaxBackoff, delay, lastErr, ret,
                 calls, opErr, sleeps, ctxErr>>

\* variant: a nil result does not leave the loop
OpSucceeds_KeepsLooping ==
  /\ UNCHANGED <<pvars, zvars, dvars, fvars, avars>>
  /\ bpc = "op"
  /\ calls' = Append(calls, [arg |-> attempt, out |-> "ok", ctx |-> ctxErr])
  /\ opErr' = Nil
  /\ attempt' = attempt + 1
  /\ UNCHANGED <<MaxRetries, InitialBackoff, MaxBackoff, bpc, label, ret,
                 backoff, delay, lastErr, sleeps, ctxErr>>

\* op(attempt) returns nil
OpSucceeds ==
  /\ UNCHANGED <<pvars, zvars, dvars, fvars, avars>>
  /\ bpc = "op"
  /\ calls' = Append(calls, [arg |-> attempt, out |-> "ok", ctx |-> ctxErr])
  /\ opErr' = Nil
  /\ ret' = Nil
  /\ bpc' = "done"
  /\ UNCHANGED <<MaxRetries, InitialBackoff, MaxBackoff, label, attempt,
                 backoff, delay, lastErr, sleeps, ctxErr>>

\* op(attempt) returns err; the loop either bails or arms the timer
OpFails(err) ==
  /\ UNCHANGED <<pvars, zvars, dvars, fvars, avars>>
  /\ bpc = "op"
  /\ calls' = Append(calls, [arg |-> attempt,
                             out |-> IF IsRetryable(err) THEN "retryable"
                                     ELSE "fatal",
                             ctx |-> ctxErr])
  /\ opErr' = err
  /\ lastErr' = err
  /\ IF ShouldBail(err, attempt, MaxRetries)
       THEN /\ ret' = BailError(label, attempt, err)
            /\ bpc' = "done"
            /\ delay' = 0
       ELSE /\ \E d \in JitteredBackoff(backoff) :
                 delay' = ClampDelay(d, BackoffMax)
            /\ bpc' = SelectState(ctxErr)
            /\ UNCHANGED ret
  /\ UNCHANGED <<MaxRetries, InitialBackoff, MaxBackoff, label, attempt,
                 backoff, sleeps, ctxErr>>

\* variant: the timer can end the sleep whatever the context says
TimerFires_Unguarded ==
  /\ UNCHANGED <<pvars, zvars, dvars, fvars, avars>>
  /\ bpc \in {"select", "raced"}
  /\ sleeps' = sleeps + 1
  /\ backoff' = NextBackoff(backoff, BackoffMax)
  /\ attempt' = attempt + 1
  /\ delay' = 0
  /\ bpc' = "op"
  /\ UNCHANGED <<MaxRetries, InitialBackoff, MaxBackoff, label, lastErr, ret,
                 calls, opErr, ctxErr>>

\* case <-timer.C: the sleep ran to its end, the loop goes round.
\* A goroutine parked in select is woken by the first channel that becomes
\* ready, so the timer can win only while ctx.Done() is still open; a
\* select that finds both channels ready takes either.
TimerFires ==
  /\ UNCHANGED <<pvars, zvars, dvars, fvars, avars>>
  /\ \/ bpc = "select" /\ ctxErr = ""
     \/ bpc = "raced"
  /\ sleeps' = sleeps + 1
  /\ backoff' = NextBackoff(backoff, BackoffMax)
  /\ attempt' = attempt + 1
  /\ delay' = 0
  /\ bpc' = "op"
  /\ UNCHANGED <<MaxRetries, InitialBackoff, MaxBackoff, label, lastErr, ret,
                 calls, opErr, ctxErr>>

\* variant: ctx.Done() is noticed but the loop goes on to the next attempt
BackoffCtxDone_Retries ==
  /\ UNCHANGED <<pvars, zvars, dvars, fvars, avars>>
  /\ bpc = "select"
  /\ ctxErr # ""
  /\ backoff' = NextBackoff(backoff, BackoffMax)
  /\ attempt' = attempt + 1
  /\ delay' = 0
  /\ bpc' = "op"
  /\ UNCHANGED <<MaxRetries, InitialBackoff, MaxBackoff, label, lastErr, ret,
                 calls, opErr, sleeps, ctxErr>>

\* case <-ctx.Done(): the sleep is cut short
BackoffCtxDone ==
  /\ UNCHANGED <<pvars, zvars, dvars, fvars, avars>>
  /\ bpc \in {"select", "raced"}
  /\ ctxErr # ""
  /\ ret' = CtxError(label, ctxErr)
  /\ delay' = 0
  /\ bpc' = "done"
  /\ UNCHANGED <<MaxRetries, InitialBackoff, MaxBackoff, label, attempt,
                 backoff, lastErr, calls, opErr, sleeps, ctxErr>>

\* the caller's context is cancelled or its deadline passes
BackoffCtxCancel(k) ==
  /\ UNCHANGED <<pvars, zvars, dvars, fvars, avars>>
  /\ ctxErr = ""
  /\ bpc # "done"
  /\ ctxErr' = k
  /\ UNCHANGED bvars

\* the locals of withExpBackoff before the call
BackoffIdle ==
  /\ bpc = "idle"
  /\ label = ""
  /\ attempt = 0
  /\ backoff = 0
  /\ delay = 0
  /\ lastErr = Nil
  /\ ret = Nil
  /\ calls = <<>>
  /\ opErr = Nil
  /\ sleeps = 0

\* the locals of PollProcesses before the call
PollIdle ==
  /\ ppc = "idle"
  /\ wait = 0
  /\ maxWait = 0
  /\ elapsed = 0
  /\ processMap = <<>>
  /\ pending = {}
  /\ todo = {}
  /\ sleepFor = 0
  /\ results = <<>>
  /\ pollErr = Nil
  /\ reqs = <<>>
  /\ lastOutcome = <<>>
  /\ lastSeen = <<>>
  /\ ctxAtEntry = ""

\* the extractor before any call
UnzipIdle ==
  /\ zfn = ""
  /\ archive = <<>>
  /\ destDir = <<>>
  /\ policy = [MaxFiles |-> 0, MaxTotalBytes |-> 0, MaxFileBytes |-> 0,
               AllowSymlinks |-> FALSE]
  /\ zpc = "idle"
  /\ zi = 1
  /\ total = 0
  /\ disk = <<>>
  /\ zerr = Nil
  /\ visited = <<>>

\* the locals of DownloadAndUnzip before the call
DownloadIdle ==
  /\ dpc = "idle"
  /\ bundleURL = <<>>
  /\ tmpZip = [kind |-> "none", files |-> <<>>]
  /\ gets = 0
  /\ dret = Nil

\* no call of package apierr under way
ApierrIdle ==
  /\ fpc = "idle"
  /\ func = ""
  /\ farg = <<>>
  /\ fret = <<>>

\* no flow under way
FlowIdle ==
  /\ apc = "idle"
  /\ flow = ""
  /\ reply = [pid |-> <<>>, url |-> ""]
  /\ aret = [url |-> "", pid |-> <<>>, err |-> Nil]
  /\ posts = 0

InitBackoff ==
  /\ MaxRetries \in -1..MaxRetriesCfg
  /\ InitialBackoff \in 0..MaxInitialBackoffCfg
  /\ MaxBackoff \in 0..MaxMaxBackoffCfg
  /\ PollInitialWait = defaultPollInitialWait
  /\ PollMaxWait = defaultPollMaxWait
  /\ processIDs = <<>>
  /\ ctxErr = ""
  /\ BackoffIdle
  /\ ApierrIdle
  /\ FlowIdle
  /\ PollIdle
  /\ UnzipIdle
  /\ DownloadIdle

NextBackoffStep ==
  \/ \E lbl \in {"", "request"} : BackoffEnter(lbl)
  \/ OpSucceeds
  \/ \E err \in OpErrors(attempt) : OpFails(err)
  \/ TimerFires
  \/ BackoffCtxDone
  \/ \E k \in {"canceled", "deadline"} : BackoffCtxCancel(k)

SpecBackoff == InitBackoff /\ [][NextBackoffStep]_vars

(* ------------------------------------------------------------------ *)
(* PollProcesses                                                       *)
(* ------------------------------------------------------------------ *)
\* A string is a sequence of characters.  Lists up to MaxIDs are enumerated
\* over IdPool (empty, whitespace-only, plain and padded spellings of one
\* id); lists that track two ids are the fixed vectors of PairLists.
Space == " "
IdPool == {<<>>, <<Space>>, <<"a">>, <<Space, "a">>}

\* the argument of TestPollProcesses_DuplicatesAndEmpty_PreservesOrder
TestIDs == <<(<<"a">>), <<>>, (<<"a">>), (<<"b">>), (<<"a">>)>>

\* the argument shape of TestPollProcesses_MultipleIDs_PreservesOrder, plain
\* and with a padded first id
PairLists == {<<(<<"a">>), (<<"b">>)>>, <<(<<Space, "a">>), (<<"b">>)>>}

IDLists ==
  UNION {[1..n -> IdPool] : n \in 0..MaxIDs} \cup {TestIDs} \cup PairLists

\* the white space strings.TrimSpace removes (unicode.IsSpace)
SpaceChars == {Space, "\t", "\n", "\r", "\f"}

\* strings.TrimSpace
RECURSIVE TrimLeft(_)
TrimLeft(str) ==
  IF str # <<>> /\ Head(str) \in SpaceChars THEN TrimLeft(Tail(str)) ELSE str
RECURSIVE TrimRight(_)
TrimRight(str) ==
  IF str # <<>> /\ str[Len(str)] \in SpaceChars
    THEN TrimRight(SubSeq(str, 1, Len(str) - 1))
    ELSE str
TrimSpace(str) == TrimRight(TrimLeft(str))

QueuedProcess(id, status, url) ==
  [ProcessID |-> id, Status |-> status, DownloadURL |-> url]

\* floors applied at entry
PollWait0 ==
  IF PollInitialWait <= 0 THEN defaultPollInitialWait ELSE PollInitialWait
PollMaxWait0 ==
  LET m == IF PollMaxWait <= 0 THEN defaultPollMaxWait ELSE PollMaxWait
  IN  IF m < PollWait0 THEN PollWait0 ELSE m

\* the ids the first loop over processIDs tracks
TrackedIDs(ids) ==
  {TrimSpace(ids[i]) : i \in 1..Len(ids)} \ {<<>>}

\* the loop that builds the returned slice: it looks every input id up in
\* processMap as the caller wrote it
RECURSIVE CollectResults(_, _)
CollectResults(ids, pm) ==
  IF ids = <<>> THEN <<>>
  ELSE IF Head(ids) \in DOMAIN pm
         THEN <<pm[Head(ids)]>> \o CollectResults(Tail(ids), pm)
         ELSE CollectResults(Tail(ids), pm)

\* variant: only "finished" ends the polling of an id
IsTerminal_FinishedOnly(status) == status = "finished"

\* proc.Status == "finished" || proc.Status == "failed"
IsTerminal(status) == status \in {"finished", "failed"}

\* what a status request that doRequest reports as successful decodes to;
\* a 2xx with an empty body leaves the response struct zeroed
Responses(id) ==
  {QueuedProcess(id, "queued", ""),
   QueuedProcess(id, "finished", "url"),
   QueuedProcess(id, "finished", ""),
   QueuedProcess(id, "failed", ""),
   QueuedProcess(<<>>, "", "")}

\* the errors doRequest may return for a status request
FetchErrors ==
  {APIError(404, -1), APIError(500, -1),
   Wrap("send request", 0, Leaf("timeout", -1)),
   Wrap("decode response", 0, Leaf("other", -1))}

\* class of a failed status request
ErrClass(err) ==
  IF IsRetryable(err) THEN "transient"
  ELSE IF FirstAPI(err) # 0 THEN "fatal"
  ELSE "other"

\* entry of PollProcesses up to the first loop test
PollEnter(dt) ==
  /\ UNCHANGED <<bvars, zvars, dvars, fvars, avars>>
  /\ ppc = "idle"
  /\ ctxAtEntry' = ctxErr
  /\ wait' = PollWait0
  /\ maxWait' = PollMaxWait0
  /\ elapsed' = dt
  /\ LET tracked == TrackedIDs(processIDs)
         pm == [id \in tracked |-> QueuedProcess(id, "queued", "")]
     IN  /\ processMap' = pm
         /\ pending' = tracked
         /\ reqs' = [id \in tracked |-> 0]
         /\ lastOutcome' = [id \in tracked |-> "none"]
         /\ lastSeen' = [id \in tracked |-> "queued"]
         /\ IF tracked = {}
              THEN /\ results' = CollectResults(processIDs, pm)
                   /\ ppc' = "done"
              ELSE /\ results' = <<>>
                   /\ ppc' = "top"
  /\ UNCHANGED <<PollInitialWait, PollMaxWait, processIDs, todo, sleepFor,
                 pollErr, ctxErr>>

\* for len(pending) > 0 { if time.Since(start) >= maxWait { break } ...
PollLoopTop ==
  /\ UNCHANGED <<bvars, zvars, dvars, fvars, avars>>
  /\ ppc = "top"
  /\ IF pending = {} \/ elapsed >= maxWait
       THEN /\ results' = CollectResults(processIDs, processMap)
            /\ ppc' = "done"
            /\ UNCHANGED todo
       ELSE /\ todo' = pending
            /\ ppc' = "round"
            /\ UNCHANGED results
  /\ UNCHANGED <<PollInitialWait, PollMaxWait, processIDs, wait, maxWait,
                 elapsed, processMap, pending, sleepFor, pollErr, reqs,
                 lastOutcome, lastSeen, ctxAtEntry, ctxErr>>

\* variant: the inner loop does not test ctx.Done(); the request is sent
\* and fails on the cancelled context
PollRoundCtxDone_Unchecked ==
  /\ UNCHANGED <<bvars, zvars, dvars, fvars, avars>>
  /\ ppc = "round"
  /\ todo # {}
  /\ ctxErr # ""
  /\ \E id \in todo :
        /\ reqs' = [reqs EXCEPT ![id] = @ + 1]
        /\ lastOutcome' = [lastOutcome EXCEPT ![id] = "other"]
        /\ todo' = todo \ {id}
  /\ UNCHANGED <<PollInitialWait, PollMaxWait, processIDs, ppc, wait, maxWait,
                 elapsed, processMap, pending, sleepFor, results, pollErr,
                 lastSeen, ctxAtEntry, ctxErr>>

\* the ctx.Done() test at the head of the inner loop body
PollRoundCtxDone ==
  /\ UNCHANGED <<bvars, zvars, dvars, fvars, avars>>
  /\ ppc = "round"
  /\ todo # {}
  /\ ctxErr # ""
  /\ results' = <<>>
  /\ pollErr' = CtxErrValue(ctxErr)
  /\ ppc' = "done"
  /\ UNCHANGED <<PollInitialWait, PollMaxWait, processIDs, wait, maxWait,
                 elapsed, processMap, pending, todo, sleepFor, reqs,
                 lastOutcome, lastSeen, ctxAtEntry, ctxErr>>

\* variant: the record keeps the id it is tracked under
PollFetchOK_KeepsID(id, proc, dt) ==
  /\ UNCHANGED <<bvars, zvars, dvars, fvars, avars>>
  /\ ppc = "round"
  /\ id \in todo
  /\ ctxErr = ""
  /\ reqs' = [reqs EXCEPT ![id] = @ + 1]
  /\ lastOutcome' = [lastOutcome EXCEPT ![id] = "ok"]
  /\ lastSeen' = [lastSeen EXCEPT ![id] = proc.Status]
  /\ elapsed' = elapsed + dt
  /\ processMap' = [processMap EXCEPT ![id] = [proc EXCEPT !.ProcessID = id]]
  /\ pending' = IF IsTerminal(proc.Status) THEN pending \ {id} ELSE pending
  /\ todo' = todo \ {id}
  /\ UNCHANGED <<PollInitialWait, PollMaxWait, processIDs, ppc, wait, maxWait,
                 sleepFor, results, pollErr, ctxAtEntry, ctxErr>>

\* one iteration of the inner loop whose doRequest succeeds
PollFetchOK(id, proc, dt) ==
  /\ UNCHANGED <<bvars, zvars, dvars, fvars, avars>>
  /\ ppc = "round"
  /\ id \in todo
  /\ ctxErr = ""
  /\ reqs' = [reqs EXCEPT ![id] = @ + 1]
  /\ lastOutcome' = [lastOutcome EXCEPT ![id] = "ok"]
  /\ lastSeen' = [lastSeen EXCEPT ![id] = proc.Status]
  /\ elapsed' = elapsed + dt
  /\ processMap' = [processMap EXCEPT ![id] = proc]
  /\ pending' = IF IsTerminal(proc.Status) THEN pending \ {id} ELSE pending
  /\ todo' = todo \ {id}
  /\ UNCHANGED <<PollInitialWait, PollMaxWait, processIDs, ppc, wait, maxWait,
                 sleepFor, results, pollErr, ctxAtEntry, ctxErr>>

\* variant: any failed request marks the id failed and drops it
PollFetchError_MarksFailed(id, err, dt) ==
  /\ UNCHANGED <<bvars, zvars, dvars, fvars, avars>>
  /\ ppc = "round"
  /\ id \in todo
  /\ ctxErr = ""
  /\ reqs' = [reqs EXCEPT ![id] = @ + 1]
  /\ lastOutcome' = [lastOutcome EXCEPT ![id] = ErrClass(err)]
  /\ elapsed' = elapsed + dt
  /\ processMap' = [processMap EXCEPT ![id].Status = "failed"]
  /\ pending' = pending \ {id}
  /\ todo' = todo \ {id}
  /\ UNCHANGED <<PollInitialWait, PollMaxWait, processIDs, ppc, wait, maxWait,
                 sleepFor, results, pollErr, lastSeen, ctxAtEntry, ctxErr>>

\* one iteration of the inner loop whose doRequest fails: `continue`
PollFetchError(id, err, dt) ==
  /\ UNCHANGED <<bvars, zvars, dvars, fvars, avars>>
  /\ ppc = "round"
  /\ id \in todo
  /\ ctxErr = ""
  /\ reqs' = [reqs EXCEPT ![id] = @ + 1]
  /\ lastOutcome' = [lastOutcome EXCEPT ![id] = ErrClass(err)]
  /\ elapsed' = elapsed + dt
  /\ todo' = todo \ {id}
  /\ UNCHANGED <<PollInitialWait, PollMaxWait, processIDs, ppc, wait, maxWait,
                 processMap, pending, sleepFor, results, pollErr, lastSeen,
                 ctxAtEntry, ctxErr>>

\* variant: the sleep is the wait, whatever is left of the budget
PollSleep_Untruncated(w, remaining) == IF w <= 0 THEN pollSleepFloor ELSE w

\* sleep := min(wait, remaining), floored
PollSleep(w, remaining) ==
  LET sl == IF w > remaining THEN remaining ELSE w
  IN  IF sl <= 0 THEN pollSleepFloor ELSE sl

\* next := min(wait*2, remaining), floored
PollNextWait(w, remaining) ==
  LET next == IF w * 2 > remaining THEN remaining ELSE w * 2
  IN  IF next <= 0 THEN pollSleepFloor ELSE next

\* after the inner loop: leave, or arm the inter-round sleep
PollRoundEnd ==
  /\ UNCHANGED <<bvars, zvars, dvars, fvars, avars>>
  /\ ppc = "round"
  /\ todo = {}
  /\ IF pending = {} \/ maxWait - elapsed <= 0
       THEN /\ results' = CollectResults(processIDs, processMap)
            /\ ppc' = "done"
            /\ UNCHANGED sleepFor
       ELSE /\ sleepFor' = PollSleep(wait, maxWait - elapsed)
            /\ ppc' = "sleep"
            /\ UNCHANGED results
  /\ UNCHANGED <<PollInitialWait, PollMaxWait, processIDs, wait, maxWait,
                 elapsed, processMap, pending, todo, pollErr, reqs,
                 lastOutcome, lastSeen, ctxAtEntry, ctxErr>>

\* variant: the select has no timer case; only ctx.Done() ends the sleep
PollSleepDone_CtxOnly(dt) ==
  /\ UNCHANGED <<bvars, zvars, dvars, fvars, avars>>
  /\ ppc = "sleep"
  /\ ctxErr # ""
  /\ dt = 0
  /\ results' = <<>>
  /\ pollErr' = CtxErrValue(ctxErr)
  /\ sleepFor' = 0
  /\ ppc' = "done"
  /\ UNCHANGED <<PollInitialWait, PollMaxWait, processIDs, wait, maxWait,
                 elapsed, processMap, pending, todo, reqs, lastOutcome,
                 lastSeen, ctxAtEntry, ctxErr>>

\* case <-time.After(sleep): the timer fires dt after the sleep is due
PollSleepDone(dt) ==
  /\ UNCHANGED <<bvars, zvars, dvars, fvars, avars>>
  /\ ppc = "sleep"
  /\ ctxErr = ""
  /\ elapsed' = elapsed + sleepFor + dt
  /\ wait' = PollNextWait(wait, maxWait - elapsed')
  /\ sleepFor' = 0
  /\ ppc' = "top"
  /\ UNCHANGED <<PollInitialWait, PollMaxWait, processIDs, maxWait,
                 processMap, pending, todo, results, pollErr, reqs,
                 lastOutcome, lastSeen, ctxAtEntry, ctxErr>>

\* variant: a cancelled sleep hands back what was collected so far
PollSleepCtxDone_ReturnsSnapshot ==
  /\ UNCHANGED <<bvars, zvars, dvars, fvars, avars>>
  /\ ppc = "sleep"
  /\ ctxErr # ""
  /\ results' = CollectResults(processIDs, processMap)
  /\ pollErr' = CtxErrValue(ctxErr)
  /\ sleepFor' = 0
  /\ ppc' = "done"
  /\ UNCHANGED <<PollInitialWait, PollMaxWait, processIDs, wait, maxWait,
                 elapsed, processMap, pending, todo, reqs, lastOutcome,
                 lastSeen, ctxAtEntry, ctxErr>>

\* case <-ctx.Done() of the inter-round select
PollSleepCtxDone ==
  /\ UNCHANGED <<bvars, zvars, dvars, fvars, avars>>
  /\ ppc = "sleep"
  /\ ctxErr # ""
  /\ results' = <<>>
  /\ pollErr' = CtxErrValue(ctxErr)
  /\ sleepFor' = 0
  /\ ppc' = "done"
  /\ UNCHANGED <<PollInitialWait, PollMaxWait, processIDs, wait, maxWait,
                 elapsed, processMap, pending, todo, reqs, lastOutcome,
                 lastSeen, ctxAtEntry, ctxErr>>

\* the caller's context is cancelled or its deadline passes
PollCtxCancel(k) ==
  /\ UNCHANGED <<bvars, zvars, dvars, fvars, avars>>
  /\ ctxErr = ""
  /\ ppc # "done"
  /\ ctxErr' = k
  /\ UNCHANGED pvars

InitPoll ==
  /\ MaxRetries = defaultMaxRetries
  /\ InitialBackoff = defaultInitialBackoff
  /\ MaxBackoff = defaultMaxBackoff
  /\ PollInitialWait \in 0..MaxPollInitialWaitCfg
  /\ PollMaxWait \in 1..MaxPollMaxWaitCfg
  /\ processIDs \in IDLists
  /\ ctxErr = ""
  /\ BackoffIdle
  /\ ApierrIdle
  /\ FlowIdle
  /\ PollIdle
  /\ UnzipIdle
  /\ DownloadIdle

NextPoll ==
  \/ \E dt \in 0..MaxStepTime : PollEnter(dt)
  \/ PollLoopTop
  \/ PollRoundCtxDone
  \/ \E id \in todo : \E dt \in 0..MaxStepTime :
        \E proc \in Responses(id) : PollFetchOK(id, proc, dt)
  \/ \E id \in todo : \E dt \in 0..MaxStepTime :
        \E err \in FetchErrors : PollFetchError(id, err, dt)
  \/ PollRoundEnd
  \/ \E dt \in 0..MaxStepTime : PollSleepDone(dt)
  \/ PollSleepCtxDone
  \/ \E k \in {"canceled", "deadline"} : PollCtxCancel(k)

SpecPoll == InitPoll /\ [][NextPoll]_vars

\* the steps of the goroutine that runs PollProcesses: the runtime keeps
\* scheduling it, every status request returns, every timer fires.  The
\* cancellation of the caller's context is not among them: it may never
\* come.
PollProgress ==
  \/ \E dt \in 0..MaxStepTime : PollEnter(dt)
  \/ PollLoopTop
  \/ PollRoundCtxDone
  \/ \E id \in todo : \E dt \in 0..MaxStepTime :
        \E proc \in Responses(id) : PollFetchOK(id, proc, dt)
  \/ \E id \in todo : \E dt \in 0..MaxStepTime :
        \E err \in FetchErrors : PollFetchError(id, err, dt)
  \/ PollRoundEnd
  \/ \E dt \in 0..MaxStepTime : PollSleepDone(dt)
  \/ PollSleepCtxDone

\* the calls whose termination is checked: two ids (one padded), a single
\* id and the empty list, under every configuration of InitPoll
InitPollFair ==
  /\ MaxRetries = defaultMaxRetries
  /\ InitialBackoff = defaultInitialBackoff
  /\ MaxBackoff = defaultMaxBackoff
  /\ PollInitialWait \in 0..MaxPollInitialWaitCfg
  /\ PollMaxWait \in 1..MaxPollMaxWaitCfg
  /\ processIDs \in {<<(<<Space, "a">>), (<<"b">>)>>, <<(<<"a">>)>>, <<>>}
  /\ ctxErr = ""
  /\ BackoffIdle
  /\ ApierrIdle
  /\ FlowIdle
  /\ PollIdle
  /\ UnzipIdle
  /\ DownloadIdle

SpecPollFair == InitPollFair /\ [][NextPoll]_vars /\ WF_vars(PollProgress)

(* ------------------------------------------------------------------ *)
(* Archive extraction: zipx.Unzip and unzipSafe                        *)
(* ------------------------------------------------------------------ *)
\* Sizes are byte counts.  The limits of unzipSafe (512 MiB, 2 GiB) are
\* beyond the integers of the checker, so they and the sizes of the
\* archives handed to unzipSafe are counted in MiB.
MaxEntries == 2        \* number of entries of an archive
MaxFileBytesCfg == 1   \* Policy.MaxFileBytes ranges over 0..this
MaxTotalBytesCfg == 2  \* Policy.MaxTotalBytes ranges over 1..this

\* the const block of unzipSafe
maxFiles == 20000
maxTotalUnzip == 2048
maxSingleUnzip == 512

\* A path is a sequence of segments, rooted or not.
Path(abs, segs) == [abs |-> abs, segs |-> segs]

\* zip.File as the extractor reads it: the stored name, the mode bits of
\* f.FileInfo(), the declared size and the number of bytes really stored
File(name, mode, declared, stored) ==
  [Name |-> name, Mode |-> mode, UncompressedSize64 |-> declared,
   stored |-> stored]

Policy(files, totalBytes, fileBytes, symlinks) ==
  [MaxFiles |-> files, MaxTotalBytes |-> totalBytes,
   MaxFileBytes |-> fileBytes, AllowSymlinks |-> symlinks]

\* the limits unzipSafe works with
UnzipSafePolicy == Policy(maxFiles, maxTotalUnzip, maxSingleUnzip, FALSE)

\* path.Clean, segment by segment: "." is dropped, ".." removes the segment
\* before it, is dropped at the root and is kept at the front of a path
\* that is not rooted
RECURSIVE CleanWalk(_, _, _)
CleanWalk(segs, out, rooted) ==
  IF segs = <<>> THEN out
  ELSE LET s == Head(segs)
           rest == Tail(segs)
       IN  IF s = "." THEN CleanWalk(rest, out, rooted)
           ELSE IF s = ".."
             THEN IF out # <<>> /\ out[Len(out)] # ".."
                    THEN CleanWalk(rest, SubSeq(out, 1, Len(out) - 1), rooted)
                    ELSE IF rooted THEN CleanWalk(rest, out, rooted)
                    ELSE CleanWalk(rest, Append(out, ".."), rooted)
             ELSE CleanWalk(rest, Append(out, s), rooted)

\* rel: the cleaned name with a leading "/" stripped; <<>> stands for the
\* names "." and "" the loop passes over
RelName(name) == CleanWalk(name.segs, <<>>, name.abs)

\* variant: the joined path is not cleaned
TargetAbs_Unresolved(dest, rel) == dest \o rel

\* targetAbs: filepath.Abs(filepath.Join(destDir, rel)) for an absolute destDir
TargetAbs(dest, rel) == CleanWalk(dest \o rel, <<>>, TRUE)

\* variant: the guard compares the first segment only
InsideDest_FirstSegment(targetAbs, destAbs) ==
  \/ targetAbs = destAbs
  \/ /\ destAbs # <<>>
     /\ targetAbs # <<>>
     /\ targetAbs[1] = destAbs[1]

\* targetAbs == destAbs || strings.HasPrefix(targetAbs, destAbs + "/").
\* For the root, destAbs + "/" is "//", a prefix of no cleaned path.
InsideDest(targetAbs, destAbs) ==
  \/ targetAbs = destAbs
  \/ /\ destAbs # <<>>
     /\ Len(targetAbs) > Len(destAbs)
     /\ SubSeq(targetAbs, 1, Len(destAbs)) = destAbs

\* variant: the count test lets one entry too many through
TooManyFiles_OffByOne(n, p) == n > p.MaxFiles + 1

\* len(r.File) > p.MaxFiles
TooManyFiles(n, p) == n > p.MaxFiles

\* variant: the size test lets one byte too many through
EntryTooBig_OffByOne(f, p) == f.UncompressedSize64 > p.MaxFileBytes + 1

\* variant: the declared size is not looked at
EntryTooBig_Unchecked(f, p) == FALSE

\* f.UncompressedSize64 > uint64(p.MaxFileBytes)
EntryTooBig(f, p) == f.UncompressedSize64 > p.MaxFileBytes

\* variant: the running total is not looked at
TooLarge_Unchecked(tot, p) == FALSE

\* total > p.MaxTotalBytes
TooLarge(tot, p) == tot > p.MaxTotalBytes

\* variant: special files are extracted like regular files
SkipsMode_Never(mode, p) == FALSE

\* the two tests that pass over symlinks, devices, named pipes and sockets
SkipsMode(mode, p) ==
  \/ ~p.AllowSymlinks /\ "symlink" \in mode
  \/ mode \cap {"device", "fifo", "socket"} # {}

\* Nodes of the file system below the destination
DirNode == [kind |-> "dir", bytes |-> 0, from |-> 0]
FileNode(n, i) == [kind |-> "file", bytes |-> n, from |-> i]

\* the directories os.MkdirAll(p) has to make below dest
MissingDirs(d, p, dest) ==
  {SubSeq(p, 1, k) : k \in (Len(dest) + 1)..Len(p)} \ DOMAIN d

\* os.MkdirAll(p) fails when a file is in the way
MkdirAllFails(d, p, dest) ==
  \E k \in (Len(dest) + 1)..Len(p) :
     /\ SubSeq(p, 1, k) \in DOMAIN d
     /\ d[SubSeq(p, 1, k)].kind = "file"

MkdirAll(d, p, dest) ==
  [q \in DOMAIN d \cup MissingDirs(d, p, dest) |->
     IF q \in DOMAIN d THEN d[q] ELSE DirNode]

\* os.OpenFile(targetAbs, O_CREATE|O_TRUNC|O_WRONLY) fails on a directory
OpenFileFails(d, p, dest) ==
  \/ p = dest
  \/ p \in DOMAIN d /\ d[p].kind = "dir"

\* variant: the file is created and truncated, the copy writes nothing
WriteFile_Truncated(d, p, n, i) ==
  [q \in DOMAIN d \cup {p} |-> IF q = p THEN FileNode(0, i) ELSE d[q]]

\* the file as it is once n bytes of entry i have been written to it
WriteFile(d, p, n, i) ==
  [q \in DOMAIN d \cup {p} |-> IF q = p THEN FileNode(n, i) ELSE d[q]]

\* What reading the entry through f.Open() yields: n bytes, then err (Nil =
\* a clean EOF).  The reader of archive/zip counts what it hands over: the
\* chunk that would take the count past the declared size is withheld and
\* the read fails, and so does the read that meets the end of the stored
\* data before the declared size.  Where the chunks end is not fixed.
ReadOutcomes(f) ==
  IF f.stored = f.UncompressedSize64
    THEN {[n |-> f.stored, err |-> Nil]}
    ELSE IF f.stored > f.UncompressedSize64
      THEN {[n |-> k, err |-> Leaf("zipFormat", -1)] :
               k \in 0..f.UncompressedSize64}
      ELSE {[n |-> k, err |-> Leaf("unexpectedEOF", -1)] : k \in 0..f.stored}

\* io.Copy(dst, src): bytes written and error
IoCopy(src) == src

\* copyCapped(dst, src, max): an io.LimitedReader of max+1 bytes in front of
\* src; the copy stops when the limit is used up and that is reported
copyCapped(src, max) ==
  IF max > 0
    THEN IF src.n >= max + 1
           THEN [n |-> max + 1, err |-> Leaf("exceedsMax", -1)]
           ELSE IoCopy(src)
    ELSE IoCopy(src)

\* the copy each of the two functions makes
CopyOf(fn, src, p) ==
  IF fn = "Unzip" THEN copyCapped(src, p.MaxFileBytes) ELSE IoCopy(src)

\* One pass of the loop body over entry f (the i-th) with reader outcome rd.
\* The result holds the new total, the new disk, the error returned (Nil =
\* the loop goes on) and what was done.
Step(tot, d, e, act, at, n) ==
  [total |-> tot, disk |-> d, err |-> e, act |-> act, target |-> at, n |-> n]

LoopBody(fn, f, i, tot, d, dest, p, rd) ==
  LET tot1 == tot + f.UncompressedSize64
      rel == RelName(f.Name)
      targetAbs == TargetAbs(dest, rel)
      parent == SubSeq(targetAbs, 1, Len(targetAbs) - 1)
      cp == CopyOf(fn, rd, p)
  IN  IF EntryTooBig(f, p)
        THEN Step(tot, d, Leaf("entryTooBig", -1), "tooBig", <<>>, 0)
      ELSE IF TooLarge(tot1, p)
        THEN Step(tot1, d, Leaf("tooLarge", -1), "tooLarge", <<>>, 0)
      ELSE IF rel = <<>>
        THEN Step(tot1, d, Nil, "noName", <<>>, 0)
      ELSE IF ~InsideDest(targetAbs, dest)
        THEN Step(tot1, d, Leaf("unsafePath", -1), "unsafe", targetAbs, 0)
      ELSE IF "dir" \in f.Mode
        THEN IF MkdirAllFails(d, targetAbs, dest)
               THEN Step(tot1, d, Leaf("ENOTDIR", -1), "ioerr", targetAbs, 0)
               ELSE Step(tot1, MkdirAll(d, targetAbs, dest), Nil, "mkdir",
                         targetAbs, 0)
      ELSE IF SkipsMode(f.Mode, p)
        THEN Step(tot1, d, Nil, "skipped", targetAbs, 0)
      ELSE IF MkdirAllFails(d, parent, dest)
        THEN Step(tot1, d, Leaf("ENOTDIR", -1), "ioerr", targetAbs, 0)
      ELSE IF OpenFileFails(MkdirAll(d, parent, dest), targetAbs, dest)
        THEN Step(tot1, MkdirAll(d, parent, dest), Leaf("EISDIR", -1),
                  "ioerr", targetAbs, 0)
      ELSE Step(tot1, WriteFile(MkdirAll(d, parent, dest), targetAbs, cp.n, i),
                cp.err, "written", targetAbs, cp.n)

\* entry of Unzip / unzipSafe: open the archive, then the count test
UnzipEnter(fn, p) ==
  /\ UNCHANGED <<bvars, pvars, dvars, ctxErr, fvars, avars>>
  /\ zpc = "idle"
  /\ tmpZip.kind # "none"
  /\ zfn' = fn
  /\ policy' = p
  /\ IF tmpZip.kind # "zip"
       THEN /\ zerr' = Leaf("zipFormat", -1)
            /\ zpc' = "done"
            /\ UNCHANGED archive
       ELSE /\ archive' = tmpZip.files
            /\ IF TooManyFiles(Len(tmpZip.files), p)
                 THEN zerr' = Leaf("tooManyFiles", -1) /\ zpc' = "done"
                 ELSE /\ zerr' = Nil
                      /\ zpc' = IF tmpZip.files = <<>> THEN "done" ELSE "loop"
  /\ UNCHANGED <<destDir, zi, total, disk, visited>>

\* one iteration of `for _, f := range r.File`; after the last entry the
\* function returns nil
UnzipEntry ==
  /\ UNCHANGED <<bvars, pvars, dvars, ctxErr, fvars, avars>>
  /\ zpc = "loop"
  /\ zi <= Len(archive)
  /\ \E rd \in ReadOutcomes(archive[zi]) :
     LET r == LoopBody(zfn, archive[zi], zi, total, disk, destDir, policy, rd)
     IN  /\ total' = r.total
         /\ disk' = r.disk
         /\ zerr' = r.err
         /\ visited' = Append(visited, [act |-> r.act, target |-> r.target,
                                        n |-> r.n, total |-> r.total,
                                        before |-> disk])
         /\ zi' = zi + 1
         /\ zpc' = IF r.err # Nil \/ zi = Len(archive) THEN "done" ELSE "loop"
  /\ UNCHANGED <<zfn, archive, destDir, policy>>

\* The archives of the model: entries that are plain, nested without a
\* directory entry, escaping, rooted, leaving and re-entering the
\* destination, lying about their size, directories and special files
Regular == {}
FilePool ==
  {File(Path(FALSE, <<"a">>), Regular, 1, 1),
   File(Path(FALSE, <<"a", "b">>), Regular, 1, 1),
   File(Path(FALSE, <<"..", "a">>), Regular, 1, 1),
   File(Path(TRUE, <<"b">>), Regular, 2, 2),
   File(Path(FALSE, <<"..", "d", "a">>), Regular, 0, 0),
   File(Path(FALSE, <<"b">>), Regular, 1, 3),
   File(Path(FALSE, <<"d">>), {"dir"}, 0, 0),
   File(Path(FALSE, <<"l">>), {"symlink"}, 1, 1),
   File(Path(FALSE, <<"..", "l">>), {"symlink"}, 1, 1),
   File(Path(FALSE, <<"f">>), {"fifo"}, 0, 0),
   File(Path(FALSE, <<"f">>), {"device"}, 0, 0),
   File(Path(FALSE, <<"f">>), {"socket"}, 0, 0),
   File(Path(FALSE, <<"l">>), {"dir", "symlink"}, 0, 0)}

Archives == UNION {[1..n -> FilePool] : n \in 0..MaxEntries}

ZipFile(files) == [kind |-> "zip", files |-> files]
NotZip == [kind |-> "garbage", files |-> <<>>]

\* the policies handed to Unzip
Policies ==
  {Policy(mf, tb, fb, s) : mf \in {MaxEntries - 1, MaxEntries},
                           tb \in 1..MaxTotalBytesCfg,
                           fb \in 0..MaxFileBytesCfg,
                           s \in BOOLEAN}

\* destinations: a directory two levels down, and the root
Dest == <<"t", "d">>
Root == <<>>

\* the default configuration of NewClient
ClientDefaults ==
  /\ MaxRetries = defaultMaxRetries
  /\ InitialBackoff = defaultInitialBackoff
  /\ MaxBackoff = defaultMaxBackoff
  /\ PollInitialWait = defaultPollInitialWait
  /\ PollMaxWait = defaultPollMaxWait

InitUnzip ==
  /\ ClientDefaults
  /\ processIDs = <<>>
  /\ ctxErr = ""
  /\ BackoffIdle
  /\ ApierrIdle
  /\ FlowIdle
  /\ PollIdle
  /\ zfn = ""
  /\ archive = <<>>
  /\ tmpZip \in {ZipFile(a) : a \in Archives} \cup {NotZip}
  /\ destDir \in {Dest, Root}
  /\ destDir = Root => Len(tmpZip.files) <= 1
  /\ policy \in Policies
  /\ zpc = "idle"
  /\ zi = 1
  /\ total = 0
  /\ disk = <<>>
  /\ zerr = Nil
  /\ visited = <<>>
  /\ dpc = "idle"
  /\ bundleURL = <<>>
  /\ gets = 0
  /\ dret = Nil

NextUnzip ==
  \/ dpc = "idle" /\ UnzipEnter("Unzip", policy)
  \/ dpc = "idle" /\ UnzipEnter("unzipSafe", UnzipSafePolicy)
  \/ UnzipEntry

SpecUnzip == InitUnzip /\ [][NextUnzip]_vars

(* ------------------------------------------------------------------ *)
(* Downloader.DownloadAndUnzip                                         *)
(* ------------------------------------------------------------------ *)
\* Body lengths are counted in bytes; every body the server means to send
\* is FullLen bytes long.
FullLen == 2

\* the bundleURL arguments of the model: empty, blank, well-formed and one
\* that http.NewRequestWithContext cannot parse
GoodURL == <<"u">>
BadURL == <<"%">>
URLPool == {<<>>, <<Space>>, GoodURL, BadURL}

\* the archives the server may deliver (sizes in MiB)
DownloadArchives ==
  {<<>>,
   <<File(Path(FALSE, <<"a">>), Regular, 1, 1)>>,
   <<File(Path(FALSE, <<"..", "a">>), Regular, 1, 1)>>,
   <<File(Path(FALSE, <<"b">>), Regular, maxSingleUnzip + 1, 1)>>,
   <<File(Path(FALSE, <<"d", "a">>), Regular, 1, 1),
     File(Path(FALSE, <<"d", "l">>), {"symlink"}, 1, 1)>>}

\* What the HTTP client and the server do with one GET:
\*   "neterr"  hc.Do fails with error e
\*   "status"  a response with a non-2xx status
\*   "body"    a 2xx response: cl is the Content-Length header (-1 = none),
\*             n the bytes that arrive, zip what the complete body holds
\*   "readerr" a 2xx response whose body fails with e while it is read
NetErr(e) == [kind |-> "neterr", e |-> e, status |-> 0, cl |-> -1, n |-> 0,
              zip |-> NotZip]
StatusResp(s) == [kind |-> "status", e |-> Nil, status |-> s, cl |-> -1,
                  n |-> 0, zip |-> NotZip]
BodyResp(cl, n, zip) == [kind |-> "body", e |-> Nil, status |-> 200, cl |-> cl,
                         n |-> n, zip |-> zip]
ReadErr(e) == [kind |-> "readerr", e |-> e, status |-> 200, cl |-> FullLen,
               n |-> FullLen - 1, zip |-> NotZip]

\* a request made with a context that is done fails with the context's error
DownloadResponses(ctx, at) ==
  IF ctx # "" THEN {NetErr(Leaf(ctx, at))}
  ELSE {NetErr(Leaf(k, at)) : k \in {"timeout", "other"}}
         \cup {StatusResp(s) : s \in {404, 503}}
         \cup {BodyResp(cl, n, ZipFile(a)) : cl \in {-1, FullLen},
                                             n \in {FullLen - 1, FullLen},
                                             a \in DownloadArchives}
         \cup {BodyResp(FullLen, FullLen + 1, ZipFile(<<>>)),
               BodyResp(FullLen, FullLen, NotZip),
               BodyResp(-1, FullLen, NotZip)}
         \cup {ReadErr(Leaf("unexpectedEOF", at))}

\* the file at tmpPath after n bytes of the body were copied into it: only
\* the complete body of a ZIP is a ZIP
FileAfterCopy(resp) ==
  IF resp.n = FullLen THEN resp.zip ELSE NotZip

\* variant: only a body that is too short counts as incomplete
LengthMismatch_ShortOnly(want, n) == want >= 0 /\ n < want

\* want >= 0 && n != want
LengthMismatch(want, n) == want >= 0 /\ n # want

\* downloadOnce: the error returned, the file left at tmpPath and whether a
\* request was handed to the HTTP client
DownloadOnce(url, tmp, resp, at) ==
  IF url = BadURL
    THEN [err |-> Wrap("build request", 0, Leaf("other", at)), tmp |-> tmp,
          sent |-> FALSE]
  ELSE IF resp.kind = "neterr"
    THEN [err |-> Wrap("http get", 0, resp.e), tmp |-> tmp, sent |-> TRUE]
  ELSE IF resp.status < 200 \/ resp.status >= 300
    THEN [err |-> APIError(resp.status, at), tmp |-> tmp, sent |-> TRUE]
  ELSE IF resp.kind = "readerr"
    THEN [err |-> Wrap("write zip", 0, resp.e), tmp |-> NotZip, sent |-> TRUE]
  ELSE IF LengthMismatch(resp.cl, resp.n)
    THEN [err |-> Wrap("incomplete download", 0, Leaf("unexpectedEOF", at)),
          tmp |-> FileAfterCopy(resp), sent |-> TRUE]
  ELSE [err |-> Nil, tmp |-> FileAfterCopy(resp), sent |-> TRUE]

\* variant: the error of zip.OpenReader is handed on as it is
ZipValidate_PassesThrough(tmp, at) ==
  IF tmp.kind # "zip" THEN Wrap("zip validate", 0, Leaf("zipFormat", at))
  ELSE Nil

\* the quick validation inside the retried closure: zip.OpenReader(tmpPath)
ZipValidate(tmp, at) ==
  IF tmp.kind # "zip" THEN Wrap("zip validate", 0, Leaf("unexpectedEOF", at))
  ELSE Nil

\* the closure handed to withExpBackoff
DownloadOp(url, tmp, resp, at) ==
  LET once == DownloadOnce(url, tmp, resp, at)
  IN  IF once.err # Nil THEN once
      ELSE [err |-> ZipValidate(once.tmp, at), tmp |-> once.tmp,
            sent |-> once.sent]

\* what the server did, as the histories name it
RespClass(url, resp) ==
  IF url = BadURL THEN "nosend"
  ELSE IF resp.kind # "body" THEN resp.kind
  ELSE IF resp.cl >= 0 /\ resp.n < resp.cl THEN "short"
  ELSE IF resp.cl >= 0 /\ resp.n > resp.cl THEN "long"
  ELSE IF FileAfterCopy(resp).kind = "zip" THEN "zip"
  ELSE "notzip"

\* entry of DownloadAndUnzip up to the call of withExpBackoff, whose entry
\* applies the floors
DownloadEnter(url) ==
  /\ UNCHANGED <<pvars, zvars, ctxErr, fvars, avars>>
  /\ dpc = "idle"
  /\ bundleURL' = url
  /\ IF TrimSpace(url) = <<>>
       THEN /\ dret' = Leaf("emptyURL", -1)
            /\ dpc' = "done"
            /\ UNCHANGED <<tmpZip, bpc, label, backoff>>
       ELSE /\ dret' = Nil
            /\ dpc' = "retry"
            /\ tmpZip' = [kind |-> "empty", files |-> <<>>]
            /\ bpc' = "op"
            /\ label' = "download"
            /\ backoff' = BackoffInitial
  /\ UNCHANGED <<MaxRetries, InitialBackoff, MaxBackoff, attempt, delay,
                 lastErr, ret, calls, opErr, sleeps, gets>>

\* one attempt: the closure runs, then withExpBackoff returns, bails out or
\* arms the timer
DownloadAttempt(resp) ==
  /\ UNCHANGED <<pvars, zvars, ctxErr, fvars, avars>>
  /\ dpc = "retry"
  /\ bpc = "op"
  /\ LET r == DownloadOp(bundleURL, tmpZip, resp, attempt)
     IN  /\ tmpZip' = r.tmp
         /\ gets' = IF r.sent THEN gets + 1 ELSE gets
         /\ opErr' = r.err
         /\ calls' = Append(calls,
                       [arg |-> attempt,
                        out |-> IF r.err = Nil THEN "ok"
                                ELSE IF IsRetryable(r.err) THEN "retryable"
                                ELSE "fatal",
                        resp |-> RespClass(bundleURL, resp),
                        err |-> r.err,
                        tmp |-> r.tmp])
         /\ IF r.err = Nil
              THEN /\ ret' = Nil
                   /\ bpc' = "done"
                   /\ UNCHANGED <<lastErr, delay>>
              ELSE /\ lastErr' = r.err
                   /\ IF ShouldBail(r.err, attempt, MaxRetries)
                        THEN /\ ret' = BailError(label, attempt, r.err)
                             /\ bpc' = "done"
                             /\ delay' = 0
                        ELSE /\ \E d \in JitteredBackoff(backoff) :
                                  delay' = ClampDelay(d, BackoffMax)
                             /\ bpc' = SelectState(ctxErr)
                             /\ UNCHANGED ret
  /\ UNCHANGED <<MaxRetries, InitialBackoff, MaxBackoff, label, attempt,
                 backoff, sleeps, dpc, bundleURL, dret>>

\* variant: unzipSafe runs on whatever the loop left at tmpPath
DownloadLoopReturns_AlwaysUnzips ==
  /\ UNCHANGED <<bvars, pvars, zvars, ctxErr, fvars, avars>>
  /\ dpc = "retry"
  /\ bpc = "done"
  /\ dret' = ret
  /\ dpc' = "unzip"
  /\ UNCHANGED <<bundleURL, tmpZip, gets>>

\* withExpBackoff has returned: its error ends the call, nil leads on to
\* unzipSafe
DownloadLoopReturns ==
  /\ UNCHANGED <<bvars, pvars, zvars, ctxErr, fvars, avars>>
  /\ dpc = "retry"
  /\ bpc = "done"
  /\ IF ret # Nil
       THEN dret' = ret /\ dpc' = "done"
       ELSE dret' = Nil /\ dpc' = "unzip"
  /\ UNCHANGED <<bundleURL, tmpZip, gets>>

\* variant: a failed extraction sends the call back into the retry loop
DownloadUnzipReturns_Redownloads ==
  /\ UNCHANGED <<pvars, zvars, ctxErr, fvars, avars>>
  /\ dpc = "unzip"
  /\ zpc = "done"
  /\ IF zerr # Nil
       THEN /\ dpc' = "retry"
            /\ bpc' = "op"
            /\ UNCHANGED dret
       ELSE /\ dret' = Nil
            /\ dpc' = "done"
            /\ UNCHANGED bpc
  /\ UNCHANGED <<MaxRetries, InitialBackoff, MaxBackoff, label, attempt,
                 backoff, delay, lastErr, ret, calls, opErr, sleeps,
                 bundleURL, tmpZip, gets>>

\* unzipSafe has returned: its error is wrapped and returned, never retried
DownloadUnzipReturns ==
  /\ UNCHANGED <<pvars, zvars, ctxErr, fvars, avars>>
  /\ dpc = "unzip"
  /\ zpc = "done"
  /\ dret' = IF zerr # Nil THEN Wrap("unzip", 0, zerr) ELSE Nil
  /\ dpc' = "done"
  /\ UNCHANGED <<MaxRetries, InitialBackoff, MaxBackoff, bpc, label, attempt,
                 backoff, delay, lastErr, ret, calls, opErr, sleeps,
                 bundleURL, tmpZip, gets>>

InitDownload ==
  /\ MaxRetries \in -1..MaxRetriesCfg
  /\ InitialBackoff \in 1..MaxInitialBackoffCfg
  /\ MaxBackoff \in 1..MaxMaxBackoffCfg
  /\ PollInitialWait = defaultPollInitialWait
  /\ PollMaxWait = defaultPollMaxWait
  /\ processIDs = <<>>
  /\ ctxErr = ""
  /\ BackoffIdle
  /\ ApierrIdle
  /\ FlowIdle
  /\ PollIdle
  /\ zfn = ""
  /\ archive = <<>>
  /\ destDir = Dest
  /\ policy = UnzipSafePolicy
  /\ zpc = "idle"
  /\ zi = 1
  /\ total = 0
  /\ disk = <<>>
  /\ zerr = Nil
  /\ visited = <<>>
  /\ DownloadIdle

NextDownload ==
  \/ \E url \in URLPool : DownloadEnter(url)
  \/ \E resp \in DownloadResponses(ctxErr, attempt) : DownloadAttempt(resp)
  \/ TimerFires
  \/ BackoffCtxDone
  \/ \E k \in {"canceled", "deadline"} : BackoffCtxCancel(k)
  \/ DownloadLoopReturns
  \/ dpc = "unzip" /\ UnzipEnter("unzipSafe", UnzipSafePolicy)
  \/ UnzipEntry
  \/ DownloadUnzipReturns

SpecDownload == InitDownload /\ [][NextDownload]_vars

(* ------------------------------------------------------------------ *)
(* apierr.Parse                                                        *)
(*                                                                     *)
(* A response body is its leading white space, its document and its    *)
(* trailing white space.  The document records its first character,    *)
(* whether encoding/json accepts it, and the value it decodes to.      *)
(* JSON values are tagged records; strings are TLA+ strings, spelled   *)
(* out character by character where the code parses them.              *)
(* ------------------------------------------------------------------ *)
JValue(t, n, str, o) == [t |-> t, n |-> n, s |-> str, o |-> o]
JNull == JValue("null", 0, "", <<>>)
JBool(b) == JValue("bool", IF b THEN 1 ELSE 0, "", <<>>)
JNum(n) == JValue("num", n, "", <<>>)
JStr(str) == JValue("str", 0, str, <<>>)
JArr(tag) == JValue("arr", 0, tag, <<>>)
JObj(o) == JValue("obj", 0, "", o)
\* stands for a key the object does not carry
Absent == JValue("absent", 0, "", <<>>)

\* the object holding the chosen fields; an Absent choice leaves the key out
Fields(choice) ==
  [k \in {k \in DOMAIN choice : choice[k] # Absent} |-> choice[k]]

Doc(text, first, valid, val) ==
  [text |-> text, first |-> first, valid |-> valid, val |-> val]
Body(lead, doc, trail) == [lead |-> lead, doc |-> doc, trail |-> trail]

\* variant: only the leading white space is removed
TrimBody_LeftOnly(b) == Body(TrimSpace(b.lead), b.doc, b.trail)

\* strings.TrimSpace(string(slurp))
TrimBody(b) ==
  Body(TrimSpace(b.lead), b.doc,
       IF b.doc.first = "" THEN TrimSpace(b.trail) ELSE TrimRight(b.trail))
\* len(trimmed) == 0 || (trimmed[0] != '{' && trimmed[0] != '[')
NotJSONLooking(trimmed) ==
  \/ trimmed.lead = <<>> /\ trimmed.doc.first = "" /\ trimmed.trail = <<>>
  \/ (IF trimmed.lead # <<>> THEN Head(trimmed.lead) ELSE trimmed.doc.first)
        \notin {"{", "["}

\* the white space the JSON grammar allows around a value
JSONSpace == {Space, "\t", "\n", "\r"}
\* json.Unmarshal(slurp, &anyJSON): the untrimmed body is decoded
Unmarshal(b) ==
  IF /\ b.doc.valid
     /\ \A i \in 1..Len(b.lead) : b.lead[i] \in JSONSpace
     /\ \A i \in 1..Len(b.trail) : b.trail[i] \in JSONSpace
    THEN [err |-> "", val |-> b.doc.val]
    ELSE [err |-> "invalid character", val |-> JNull]

\* http.StatusText
StatusText(status) ==
  CASE status = 400 -> "Bad Request"
    [] status = 403 -> "Forbidden"
    [] status = 418 -> "I'm a teapot"
    [] status = 500 -> "Internal Server Error"
    [] status = 502 -> "Bad Gateway"
    [] OTHER -> ""

\* the characters of the strings the program inspects character by
\* character (strconv.Atoi, strings.TrimSpace)
Spelling(str) ==
  CASE str = "400" -> <<"4", "0", "0">>
    [] str = " 429 " -> <<" ", "4", "2", "9", " ">>
    [] str = "-7" -> <<"-", "7">>
    [] str = "4x" -> <<"4", "x">>
    [] str = "abc" -> <<"a", "b", "c">>
    [] str = " " -> <<" ">>
    [] str = "" -> <<>>
    [] str = "a" -> <<"a">>
    [] str = " a" -> <<" ", "a">>
    [] str = "url" -> <<"u", "r", "l">>

DigitChars == {"0", "1", "2", "3", "4", "5", "6", "7", "8", "9"}
DigitValue(c) ==
  CASE c = "0" -> 0 [] c = "1" -> 1 [] c = "2" -> 2 [] c = "3" -> 3
    [] c = "4" -> 4 [] c = "5" -> 5 [] c = "6" -> 6 [] c = "7" -> 7
    [] c = "8" -> 8 [] c = "9" -> 9
RECURSIVE DecimalValue(_, _)
DecimalValue(cs, acc) ==
  IF cs = <<>> THEN acc
  ELSE DecimalValue(Tail(cs), acc * 10 + DigitValue(Head(cs)))
\* strconv.Atoi: an optional sign and at least one decimal digit
Atoi(cs) ==
  LET signed == cs # <<>> /\ Head(cs) \in {"+", "-"}
      digits == IF signed THEN Tail(cs) ELSE cs
  IN  IF digits = <<>> \/ \E i \in 1..Len(digits) : digits[i] \notin DigitChars
        THEN [ok |-> FALSE, i |-> 0]
        ELSE [ok |-> TRUE,
              i |-> IF signed /\ Head(cs) = "-"
                      THEN 0 - DecimalValue(digits, 0)
                      ELSE DecimalValue(digits, 0)]

getString(m, key) ==
  IF key \in DOMAIN m /\ m[key].t = "str"
    THEN [ok |-> TRUE, s |-> m[key].s]
    ELSE [ok |-> FALSE, s |-> ""]
getStringOr(m, key, def) ==
  IF getString(m, key).ok THEN getString(m, key).s ELSE def
\* variant: numeric strings are not accepted
getNumberAsInt_NoStrings(m, key) ==
  IF key \notin DOMAIN m THEN [ok |-> FALSE, i |-> 0]
  ELSE IF m[key].t = "num" THEN [ok |-> TRUE, i |-> m[key].n]
  ELSE [ok |-> FALSE, i |-> 0]

getNumberAsInt(m, key) ==
  IF key \notin DOMAIN m THEN [ok |-> FALSE, i |-> 0]
  ELSE IF m[key].t = "num" THEN [ok |-> TRUE, i |-> m[key].n]
  ELSE IF m[key].t = "str" THEN Atoi(TrimSpace(Spelling(m[key].s)))
  ELSE [ok |-> FALSE, i |-> 0]
coalesce(a, b) == IF a # "" THEN a ELSE b
pickDetails(obj) ==
  IF "details" \in DOMAIN obj /\ obj["details"].t = "obj" THEN obj["details"].o
  ELSE IF "details" \in DOMAIN obj THEN [k \in {"details"} |-> obj["details"]]
  ELSE [k \in {"reason"} |-> JStr("server error without details")]

\* the *APIError Parse builds (Resp is set by the caller)
ParsedError(status, code, message, reason, raw, details) ==
  [Status |-> status, Code |-> code, Message |-> message, Reason |-> reason,
   Raw |-> raw, Details |-> details]

\* the shape tests of Parse on the decoded object, in program order
ParseShapes(obj, status, trimmed) ==
  LET msg == getString(obj, "message")
      sc == getNumberAsInt(obj, "statusCode")
      reason == getString(obj, "error")
      nested == "error" \in DOMAIN obj /\ obj["error"].t = "obj"
      errAny == IF nested THEN obj["error"].o ELSE <<>>
      code == getNumberAsInt(obj, "code")
      errorCode == getNumberAsInt(obj, "errorCode")
  IN  IF msg.ok /\ sc.ok /\ reason.ok
        THEN ParsedError(status, sc.i, msg.s, reason.s, trimmed, obj)
      ELSE IF nested
        THEN ParsedError(status,
                         IF getNumberAsInt(errAny, "code").ok
                           THEN getNumberAsInt(errAny, "code").i ELSE status,
                         coalesce(getString(errAny, "message").s, StatusText(status)),
                         "", trimmed, pickDetails(errAny))
      ELSE IF msg.ok /\ code.ok
        THEN ParsedError(status, code.i, msg.s, "", trimmed, pickDetails(obj))
      ELSE IF msg.ok /\ errorCode.ok
        THEN ParsedError(status, errorCode.i, msg.s, "", trimmed, pickDetails(obj))
      ELSE ParsedError(status, 0,
                       coalesce(getStringOr(obj, "message", ""), StatusText(status)),
                       coalesce(reason.s, "unhandled error format"),
                       trimmed, obj)

Parse(slurp, status) ==
  LET trimmed == TrimBody(slurp)
      decoded == Unmarshal(slurp)
      \* obj, _ := anyJSON.(map[string]any)
      obj == IF decoded.val.t = "obj" THEN decoded.val.o ELSE <<>>
  IN  IF NotJSONLooking(trimmed)
        THEN ParsedError(status, 0, StatusText(status), "non-json error body",
                         trimmed, <<>>)
      ELSE IF decoded.err # ""
        THEN ParsedError(status, 0, StatusText(status),
                         "invalid json in error body", trimmed,
                         [k \in {"unmarshal_error"} |-> JStr(decoded.err)])
      ELSE ParseShapes(obj, status, trimmed)

(* ------------------------------------------------------------------ *)
(* Package apierr called directly: IsRetryable, JitteredBackoff, Parse *)
(* ------------------------------------------------------------------ *)
\* the error values handed to IsRetryable: nil, the sentinels and transport
\* errors, *APIError of several statuses, each bare or wrapped
ErrKinds == {"timeout", "deadline", "canceled", "unexpectedEOF", "EOF",
             "closedPipe", "ECONNRESET", "ECONNABORTED", "neterr", "other"}
APIStatuses == {400, 401, 403, 404, 408, 418, 422, 425, 429,
                500, 501, 502, 503, 504}
RECURSIVE WrapN(_, _)
WrapN(e, k) == IF k = 0 THEN e ELSE Wrap("wrap", 0, WrapN(e, k - 1))
BareErrors == {Leaf(k, -1) : k \in ErrKinds} \cup {APIError(s, -1) : s \in APIStatuses}
ErrPool == {Nil} \cup {WrapN(e, k) : e \in BareErrors, k \in 0..MaxWrap}

\* the bases handed to JitteredBackoff: non-positive, small, the default,
\* and the largest values a Duration holds
JitterSafeMax ==
  CHOOSE b \in 1..MaxDuration :
    /\ (b \div 2) + (b - 1) <= MaxDuration
    /\ ((b + 1) \div 2) + b > MaxDuration
Bases == (-1..3) \cup {defaultJitterBase, JitterSafeMax, JitterSafeMax + 1, MaxDuration}

\* the bodies and statuses handed to Parse
DetailChoices == {Absent, JObj([a |-> JNum(1)]), JArr("x,y")}
NestedObjects ==
  {Fields([message |-> m, code |-> c, details |-> dt]) :
     m \in {Absent, JStr("nope"), JStr("")},
     c \in {Absent, JNum(422), JStr("4x")},
     dt \in DetailChoices}
MessageChoices == {Absent, JStr("oops"), JStr(""), JNum(7)}
StatusCodeChoices == {Absent, JNum(400), JStr("400"), JStr("abc")}
ErrorChoices ==
  {Absent, JStr("Bad Request"), JNum(1)} \cup {JObj(o) : o \in NestedObjects}
CodeChoices == {Absent, JNum(499), JStr(" 429 "), JStr("4x")}
ErrorCodeChoices == {Absent, JNum(4711), JStr("-7"), JStr(" ")}
Objects ==
  {Fields([message |-> m, statusCode |-> sc, error |-> e, code |-> c,
           errorCode |-> ec, details |-> dt]) :
     m \in MessageChoices, sc \in StatusCodeChoices, e \in ErrorChoices,
     c \in CodeChoices, ec \in ErrorCodeChoices, dt \in DetailChoices}
ObjectDoc(o) == Doc("object", "{", TRUE, JObj(o))
SimpleDocs ==
  {Doc("", "", FALSE, JNull),
   Doc("gateway exploded lol", "g", FALSE, JNull),
   Doc("123", "1", TRUE, JNum(123)),
   Doc("{oops", "{", FALSE, JNull),
   Doc("[1,", "[", FALSE, JNull),
   Doc("[1]", "[", TRUE, JArr("1")),
   ObjectDoc([foo |-> JStr("bar")]),
   ObjectDoc([message |-> JStr("oops"), code |-> JNum(123)])}
Margins == {<<>>, <<Space>>, <<"\n", Space>>, <<"\f">>}
Bodies ==
  {Body(l, dc, t) : l \in Margins, dc \in SimpleDocs, t \in Margins}
    \cup {Body(<<>>, ObjectDoc(o), <<>>) : o \in Objects}
ParseStatuses == {400, 502, 520}

ApplyParse ==
  /\ UNCHANGED <<bvars, pvars, zvars, dvars, ctxErr, avars>>
  /\ fpc = "call" /\ func = "Parse"
  /\ fret' = Parse(farg.slurp, farg.status)
  /\ fpc' = "done"
  /\ UNCHANGED <<func, farg>>

ApplyIsRetryable ==
  /\ UNCHANGED <<bvars, pvars, zvars, dvars, ctxErr, avars>>
  /\ fpc = "call" /\ func = "IsRetryable"
  /\ fret' = IsRetryable(farg)
  /\ fpc' = "done"
  /\ UNCHANGED <<func, farg>>

ApplyJitteredBackoff ==
  /\ UNCHANGED <<bvars, pvars, zvars, dvars, ctxErr, avars>>
  /\ fpc = "call" /\ func = "JitteredBackoff"
  /\ fret' \in JitteredBackoff(farg)
  /\ fpc' = "done"
  /\ UNCHANGED <<func, farg>>

InitApierr ==
  /\ ClientDefaults
  /\ processIDs = <<>>
  /\ ctxErr = ""
  /\ BackoffIdle
  /\ PollIdle
  /\ UnzipIdle
  /\ DownloadIdle
  /\ FlowIdle
  /\ fpc = "call"
  /\ fret = <<>>
  /\ \/ func = "IsRetryable" /\ farg \in ErrPool
     \/ func = "JitteredBackoff" /\ farg \in Bases
     \/ func = "Parse" /\ farg \in [slurp : Bodies, status : ParseStatuses]

NextApierr ==
  \/ ApplyIsRetryable
  \/ ApplyJitteredBackoff
  \/ ApplyParse

SpecApierr == InitApierr /\ [][NextApierr]_vars

(* ------------------------------------------------------------------ *)
(* The flows built on doWithRetry: FetchBundle, FetchBundleAsync,      *)
(* Upload and DownloadAsync (doDownload with FetchBundleAsync)         *)
(* ------------------------------------------------------------------ *)
Flows == {"FetchBundle", "FetchBundleAsync", "Upload", "DownloadAsync"}
\* the flows that poll a process after the kick-off request
Polling == {"FetchBundleAsync", "Upload", "DownloadAsync"}

EmptyBody == Body(<<>>, Doc("", "", FALSE, JNull), <<>>)
\* What the HTTP client and the server do with one POST:
\*   "neterr"  HTTPClient.Do fails with error e
\*   "reply"   a response with the given status and body
\*   "readerr" a 2xx response whose body fails with e while it is read
SendErr(e) == [kind |-> "neterr", e |-> e, status |-> 0, body |-> EmptyBody]
Reply(status, body) == [kind |-> "reply", e |-> Nil, status |-> status, body |-> body]
BrokenReply(e) == [kind |-> "readerr", e |-> e, status |-> 200, body |-> EmptyBody]

\* bodies of non-2xx responses
ErrorBodies ==
  {EmptyBody,
   Body(<<>>, Doc("gateway exploded lol", "g", FALSE, JNull), <<>>),
   Body(<<>>, ObjectDoc([error |-> JObj([message |-> JStr("rate limit"),
                                         code |-> JNum(429)])]), <<>>)}
\* bodies of 2xx responses: the kick-off answers carry the process id at
\* both places the flows read it from, and the bundle url
ReplyObject(id) ==
  [process_id |-> id, process |-> JObj([process_id |-> id]),
   bundle_url |-> JStr("url")]
\* the body of TestUploader_Upload_DecodeErrorBubbles: a document cut off in
\* the middle, delivered whole by the transport
CutOffDoc == Doc("{process:{process_id:", "{", FALSE, JNull)
OKBodies ==
  {EmptyBody,
   Body(<<>>, Doc("{oops", "{", FALSE, JNull), <<>>),
   Body(<<>>, CutOffDoc, <<>>),
   Body(<<>>, ObjectDoc([bundle_url |-> JStr("")]), <<>>)}
    \cup {Body(<<Space>>, ObjectDoc(ReplyObject(id)), <<"\n">>) :
            id \in {JStr("a"), JStr(""), JStr(" a"), JNum(1)}}

\* a request made with a context that is done fails with the context's error
KickoffResponses(ctx, at) ==
  IF ctx # "" THEN {SendErr(Leaf(ctx, at))}
  ELSE {SendErr(Leaf("timeout", at)), BrokenReply(Leaf("unexpectedEOF", at))}
         \cup {Reply(st, b) : st \in {304, 400, 429, 503}, b \in ErrorBodies}
         \cup {Reply(200, b) : b \in OKBodies}

\* encoding/json filling one string field of the response struct
DecodeField(o, key) ==
  IF key \notin DOMAIN o \/ o[key].t = "null" THEN [ok |-> TRUE, s |-> ""]
  ELSE IF o[key].t = "str" THEN [ok |-> TRUE, s |-> o[key].s]
  ELSE [ok |-> FALSE, s |-> ""]
\* json.Unmarshal(b, v) for the response struct of the flow
DecodeInto(f, val) ==
  IF val.t # "obj" THEN [ok |-> FALSE, pid |-> <<>>, url |-> ""]
  ELSE IF f = "FetchBundle"
    THEN [ok |-> DecodeField(val.o, "bundle_url").ok, pid |-> <<>>,
          url |-> DecodeField(val.o, "bundle_url").s]
  ELSE IF f = "Upload"
    THEN IF "process" \notin DOMAIN val.o \/ val.o["process"].t = "null"
           THEN [ok |-> TRUE, pid |-> <<>>, url |-> ""]
         ELSE IF val.o["process"].t # "obj"
           THEN [ok |-> FALSE, pid |-> <<>>, url |-> ""]
         ELSE [ok |-> DecodeField(val.o["process"].o, "process_id").ok,
               pid |-> Spelling(DecodeField(val.o["process"].o, "process_id").s),
               url |-> ""]
  ELSE [ok |-> DecodeField(val.o, "process_id").ok,
        pid |-> Spelling(DecodeField(val.o, "process_id").s),
        url |-> ""]

\* variant: the typed error carries the code of the error payload
DoRequest_PayloadCode(f, resp, v, at) ==
  IF resp.kind = "neterr"
    THEN [err |-> Wrap("send request", 0, resp.e), v |-> v]
  ELSE IF resp.status < 200 \/ resp.status >= 300
    THEN [err |-> APIError(Parse(resp.body, resp.status).Code, at), v |-> v]
  ELSE IF resp.kind = "readerr"
    THEN [err |-> Wrap("read response", 0, resp.e), v |-> v]
  ELSE IF TrimBody(resp.body) = EmptyBody
    THEN [err |-> Nil, v |-> v]
  ELSE IF Unmarshal(resp.body).err # "" \/ ~DecodeInto(f, Unmarshal(resp.body).val).ok
    THEN [err |-> Wrap("decode response", 0, Leaf("jsonSyntax", at)), v |-> v]
  ELSE [err |-> Nil,
        v |-> [pid |-> DecodeInto(f, Unmarshal(resp.body).val).pid,
               url |-> DecodeInto(f, Unmarshal(resp.body).val).url]]

\* doRequest: the error returned and the response struct afterwards
DoRequest(f, resp, v, at) ==
  IF resp.kind = "neterr"
    THEN [err |-> Wrap("send request", 0, resp.e), v |-> v]
  ELSE IF resp.status < 200 \/ resp.status >= 300
    THEN [err |-> APIError(Parse(resp.body, resp.status).Status, at), v |-> v]
  ELSE IF resp.kind = "readerr"
    THEN [err |-> Wrap("read response", 0, resp.e), v |-> v]
  ELSE IF TrimBody(resp.body) = EmptyBody
    THEN [err |-> Nil, v |-> v]
  ELSE IF Unmarshal(resp.body).err # "" \/ ~DecodeInto(f, Unmarshal(resp.body).val).ok
    THEN [err |-> Wrap("decode response", 0, Leaf("jsonSyntax", at)), v |-> v]
  ELSE [err |-> Nil,
        v |-> [pid |-> DecodeInto(f, Unmarshal(resp.body).val).pid,
               url |-> DecodeInto(f, Unmarshal(resp.body).val).url]]

\* the label the flow puts in front of an error of doWithRetry
CallSite(f) ==
  CASE f = "FetchBundle" -> "fetch bundle"
    [] f = "Upload" -> "upload"
    [] OTHER -> "fetch bundle async"
\* the label the flow puts in front of an error of PollProcesses
PollSite(f) ==
  IF f = "Upload" THEN "upload: poll processes"
  ELSE "fetch bundle async: poll processes"

Failed(err) == [url |-> "", pid |-> <<>>, err |-> err]

\* entry of the flow up to the first attempt of doWithRetry; with
\* ok = FALSE Upload and doDownload cannot turn the parameters into a
\* request body, and doWithRetry cannot read the body FetchBundle and
\* FetchBundleAsync were given: the flow returns before any request
FlowEnter(f, ok) ==
  /\ UNCHANGED <<pvars, zvars, dvars, fvars, ctxErr>>
  /\ apc = "idle"
  /\ flow' = f
  /\ IF ~ok
       THEN /\ aret' = Failed(
                 IF f = "Upload" THEN Wrap("upload", 0, Leaf("badParams", -1))
                 ELSE IF f = "DownloadAsync"
                   THEN Wrap("download", 0, Leaf("badParams", -1))
                 ELSE Wrap(CallSite(f), 0,
                           Wrap("buffer request body", 0, Leaf("other", -1))))
            /\ apc' = "done"
            /\ UNCHANGED <<bpc, label, attempt, backoff>>
       ELSE /\ apc' = "kickoff"
            /\ bpc' = "op"
            /\ label' = "request"
            /\ attempt' = 0
            /\ backoff' = BackoffInitial
            /\ UNCHANGED aret
  /\ UNCHANGED <<MaxRetries, InitialBackoff, MaxBackoff, delay, lastErr, ret,
                 calls, opErr, sleeps, reply, posts>>

\* history: the text of a 2xx body that is no JSON document, "" otherwise
BadJSONText(resp) ==
  IF /\ resp.kind = "reply"
     /\ resp.status >= 200
     /\ resp.status < 300
     /\ ~resp.body.doc.valid
    THEN resp.body.doc.text
    ELSE ""

\* the bytes of the reader the flow hands to doWithRetry
RequestBody(f) ==
  CASE f = "FetchBundle" -> <<"{", "b", "}">>
    [] f = "Upload" -> <<"{", "u", "}">>
    [] OTHER -> <<"{", "a", "}">>

\* io.ReadAll(body) at the entry of doWithRetry
Payload(f) == RequestBody(f)

\* variant: every attempt reads from the caller's reader, which the first
\* attempt leaves at its end
AttemptBody_SharedReader(payload, att) == IF att = 0 THEN payload ELSE <<>>

\* bytes.NewReader(payload): every attempt reads the payload from its start
AttemptBody(payload, att) == payload

\* one attempt of doWithRetry: doRequest runs, then withExpBackoff returns,
\* bails out or arms the timer
RequestAttempt(resp) ==
  /\ UNCHANGED <<pvars, zvars, dvars, fvars, ctxErr>>
  /\ apc = "kickoff"
  /\ bpc = "op"
  /\ LET r == DoRequest(flow, resp, reply, attempt)
     IN  /\ reply' = r.v
         /\ posts' = posts + 1
         /\ opErr' = r.err
         /\ calls' = Append(calls,
                       [arg |-> attempt,
                        out |-> IF r.err = Nil THEN "ok"
                                ELSE IF IsRetryable(r.err) THEN "retryable"
                                ELSE "fatal",
                        resp |-> resp.kind,
                        status |-> resp.status,
                        bad |-> BadJSONText(resp),
                        body |-> AttemptBody(Payload(flow), attempt),
                        length |-> Len(AttemptBody(Payload(flow), attempt)),
                        err |-> r.err])
         /\ IF r.err = Nil
              THEN /\ ret' = Nil
                   /\ bpc' = "done"
                   /\ UNCHANGED <<lastErr, delay>>
              ELSE /\ lastErr' = r.err
                   /\ IF ShouldBail(r.err, attempt, MaxRetries)
                        THEN /\ ret' = BailError(label, attempt, r.err)
                             /\ bpc' = "done"
                             /\ delay' = 0
                        ELSE /\ \E d \in JitteredBackoff(backoff) :
                                  delay' = ClampDelay(d, BackoffMax)
                             /\ bpc' = SelectState(ctxErr)
                             /\ UNCHANGED ret
  /\ UNCHANGED <<MaxRetries, InitialBackoff, MaxBackoff, label, attempt,
                 backoff, sleeps, apc, flow, aret>>

\* doWithRetry has returned: the flow wraps its error, checks the decoded
\* response and, for the polling flows, hands the process id to PollProcesses
KickoffReturns ==
  /\ UNCHANGED <<bvars, zvars, dvars, fvars, ctxErr>>
  /\ apc = "kickoff"
  /\ bpc = "done"
  /\ IF ret # Nil
       THEN /\ aret' = Failed(Wrap(CallSite(flow), 0, ret))
            /\ apc' = "done"
            /\ UNCHANGED processIDs
     ELSE IF flow = "FetchBundle"
       THEN /\ aret' = IF reply.url = "" THEN Failed(Leaf("emptyBundleURL", -1))
                       ELSE [url |-> reply.url, pid |-> <<>>, err |-> Nil]
            /\ apc' = "done"
            /\ UNCHANGED processIDs
     ELSE IF (IF flow = "Upload" THEN TrimSpace(reply.pid) ELSE reply.pid) = <<>>
       THEN /\ aret' = Failed(Leaf("emptyProcessID", -1))
            /\ apc' = "done"
            /\ UNCHANGED processIDs
     ELSE /\ processIDs' = <<reply.pid>>
          /\ apc' = "poll"
          /\ UNCHANGED aret
  /\ UNCHANGED <<PollInitialWait, PollMaxWait, ppc, wait, maxWait, elapsed,
                 processMap, pending, todo, sleepFor, results, pollErr, reqs,
                 lastOutcome, lastSeen, ctxAtEntry, flow, reply, posts>>

\* what the flow makes of the results of PollProcesses
FlowResult(f, v, res) ==
  IF res = <<>> THEN Failed(Leaf("noProcessResults", -1))
  ELSE IF f = "Upload"
    THEN IF res[1].Status = "finished"
           THEN [url |-> "", pid |-> v.pid, err |-> Nil]
           ELSE Failed(Leaf("didNotFinish", -1))
  ELSE IF res[1].Status = "finished" /\ res[1].DownloadURL # ""
    THEN [url |-> res[1].DownloadURL, pid |-> <<>>, err |-> Nil]
  ELSE Failed(Leaf("didNotFinish", -1))

\* variant: doDownload goes on to the archive whatever the fetch returned
AfterFetch_Always(f, r) == IF f = "DownloadAsync" THEN "fetched" ELSE "done"

\* doDownload: an error of fetch ends the call, a url leads on to
\* DownloadAndUnzip; the other flows return
AfterFetch(f, r) ==
  IF f = "DownloadAsync" /\ r.err = Nil THEN "fetched" ELSE "done"

\* PollProcesses has returned
PollReturns ==
  /\ UNCHANGED <<bvars, pvars, zvars, dvars, fvars, ctxErr>>
  /\ apc = "poll"
  /\ ppc = "done"
  /\ LET r == IF pollErr # Nil THEN Failed(Wrap(PollSite(flow), 0, pollErr))
              ELSE FlowResult(flow, reply, results)
     IN  /\ aret' = r
         /\ apc' = AfterFetch(flow, r)
  /\ UNCHANGED <<flow, reply, posts>>

\* doDownload calls DownloadAndUnzip with the url fetch returned: its entry
\* up to the first attempt of a new withExpBackoff
DoDownloadUnzips ==
  /\ UNCHANGED <<pvars, zvars, fvars, ctxErr>>
  /\ apc = "fetched"
  /\ dpc = "idle"
  /\ apc' = "download"
  /\ bundleURL' = Spelling(aret.url)
  /\ IF TrimSpace(Spelling(aret.url)) = <<>>
       THEN /\ dret' = Leaf("emptyURL", -1)
            /\ dpc' = "done"
            /\ UNCHANGED <<tmpZip, bpc, label, backoff, attempt, delay,
                           lastErr, ret>>
       ELSE /\ dret' = Nil
            /\ dpc' = "retry"
            /\ tmpZip' = [kind |-> "empty", files |-> <<>>]
            /\ bpc' = "op"
            /\ label' = "download"
            /\ backoff' = BackoffInitial
            /\ attempt' = 0
            /\ delay' = 0
            /\ lastErr' = Nil
            /\ ret' = Nil
  /\ UNCHANGED <<MaxRetries, InitialBackoff, MaxBackoff, calls, opErr, sleeps,
                 gets, flow, reply, aret, posts>>

\* what the server of the bundle url does with one GET of doDownload
BundleResponses(ctx, at) ==
  IF ctx # "" THEN {NetErr(Leaf(ctx, at))}
  ELSE {NetErr(Leaf("timeout", at)), StatusResp(404),
        BodyResp(FullLen, FullLen, NotZip),
        BodyResp(FullLen, FullLen,
                 ZipFile(<<File(Path(FALSE, <<"a">>), Regular, 1, 1)>>))}

\* DownloadAndUnzip has returned to doDownload: its error ends the call,
\* otherwise the bundle url is returned
DoDownloadReturns ==
  /\ UNCHANGED <<bvars, pvars, zvars, dvars, fvars, ctxErr>>
  /\ apc = "download"
  /\ dpc = "done"
  /\ aret' = IF dret # Nil THEN Failed(dret) ELSE aret
  /\ apc' = "done"
  /\ UNCHANGED <<flow, reply, posts>>

\* the caller's context is cancelled or its deadline passes
FlowCtxCancel(k) ==
  /\ UNCHANGED <<bvars, pvars, zvars, dvars, fvars, avars>>
  /\ ctxErr = ""
  /\ apc # "done"
  /\ ctxErr' = k

InitFlows ==
  /\ MaxRetries \in 0..MaxFlowRetries
  /\ InitialBackoff = 1
  /\ MaxBackoff = 2
  /\ PollInitialWait = 1
  /\ PollMaxWait \in {1, 2}
  /\ processIDs = <<>>
  /\ ctxErr = ""
  /\ BackoffIdle
  /\ ApierrIdle
  /\ FlowIdle
  /\ PollIdle
  /\ zfn = ""
  /\ archive = <<>>
  /\ destDir = Dest
  /\ policy = UnzipSafePolicy
  /\ zpc = "idle"
  /\ zi = 1
  /\ total = 0
  /\ disk = <<>>
  /\ zerr = Nil
  /\ visited = <<>>
  /\ DownloadIdle

NextFlows ==
  \/ \E f \in Flows : \E ok \in BOOLEAN : FlowEnter(f, ok)
  \/ \E resp \in KickoffResponses(ctxErr, attempt) : RequestAttempt(resp)
  \/ TimerFires
  \/ BackoffCtxDone
  \/ KickoffReturns
  \/ apc = "poll" /\ \E dt \in 0..MaxStepTime : PollEnter(dt)
  \/ PollLoopTop
  \/ PollRoundCtxDone
  \/ \E id \in todo : \E dt \in 0..MaxStepTime :
        \E proc \in Responses(id) : PollFetchOK(id, proc, dt)
  \/ \E id \in todo : \E dt \in 0..MaxStepTime :
        \E err \in FetchErrors : PollFetchError(id, err, dt)
  \/ PollRoundEnd
  \/ \E dt \in 0..MaxStepTime : PollSleepDone(dt)
  \/ PollSleepCtxDone
  \/ PollReturns
  \/ DoDownloadUnzips
  \/ \E resp \in BundleResponses(ctxErr, attempt) : DownloadAttempt(resp)
  \/ DownloadLoopReturns
  \/ dpc = "unzip" /\ UnzipEnter("unzipSafe", UnzipSafePolicy)
  \/ UnzipEntry
  \/ DownloadUnzipReturns
  \/ DoDownloadReturns
  \/ \E k \in {"canceled", "deadline"} : FlowCtxCancel(k)

SpecFlows == InitFlows /\ [][NextFlows]_vars

(* ------------------------------------------------------------------ *)
(* Properties of withExpBackoff                                        *)
(* ------------------------------------------------------------------ *)
Max0(n) == IF n < 0 THEN 0 ELSE n

\* outer wraps inner: inner is what is left of outer after unwrapping
ErrWraps(outer, inner) ==
  /\ inner # Nil
  /\ Len(outer) >= Len(inner)
  /\ SubSeq(outer, Len(outer) - Len(inner) + 1, Len(outer)) = inner

LastCall == calls[Len(calls)]

\* C2: op is invoked at most max(MaxRetries,0)+1 times, the i-th invocation
\* receives attempt i-1; if the call has returned, the context was never
\* cancelled and every attempt failed with a retryable error, then exactly
\* max(MaxRetries,0)+1 attempts were made and the returned error wraps the
\* error of the last attempt.
C2_AttemptsBounded ==
  /\ Len(calls) <= Max0(MaxRetries) + 1
  /\ \A i \in 1..Len(calls) : calls[i].arg = i - 1
  /\ (/\ bpc = "done"
      /\ ctxErr = ""
      /\ \A i \in 1..Len(calls) : calls[i].out = "retryable")
     => /\ Len(calls) = Max0(MaxRetries) + 1
        /\ ErrWraps(ret, opErr)
        /\ opErr[Len(opErr)].at = Len(calls) - 1

C2_Witness ==
  /\ bpc = "done"
  /\ ctxErr = ""
  /\ MaxRetries = 2
  /\ Len(calls) = 3
  /\ \A i \in 1..3 : calls[i].out = "retryable"
  /\ label = "request"
  /\ ret = Wrap("request", 3, APIError(500, 2))

\* C3: an attempt that fails with an error the predicate classifies as
\* non-retryable is the last one: the call has returned an error wrapping
\* that error, no timer was armed and no sleep ran after it, and op was not
\* invoked again, whatever MaxRetries is.
C3_FatalStopsAtOnce ==
  \A i \in 1..Len(calls) :
     calls[i].out = "fatal"
       => /\ i = Len(calls)
          /\ bpc = "done"
          /\ ~IsRetryable(opErr)
          /\ ErrWraps(ret, opErr)
          /\ delay = 0
          /\ sleeps = Len(calls) - 1

C3_Witness ==
  /\ bpc = "done"
  /\ MaxRetries = 2
  /\ Len(calls) = 1
  /\ calls[1].out = "fatal"
  /\ opErr = APIError(404, 0)
  /\ ret = Wrap("request", 1, APIError(404, 0))

\* C4: a successful attempt is the last invocation: the call has returned
\* nil after exactly k+1 invocations (k the attempt that succeeded), every
\* earlier attempt failed with a retryable error, and nil is returned only
\* after a success.
C4_SuccessReturnsNil ==
  /\ \A i \in 1..Len(calls) :
        calls[i].out = "ok"
          => /\ i = Len(calls)
             /\ calls[i].arg = i - 1
             /\ calls[i].arg <= Max0(MaxRetries)
             /\ bpc = "done"
             /\ ret = Nil
             /\ \A j \in 1..(i - 1) : calls[j].out = "retryable"
  /\ (bpc = "done" /\ ret = Nil) => (calls # <<>> /\ LastCall.out = "ok")

C4_Witness ==
  /\ bpc = "done"
  /\ ret = Nil
  /\ ctxErr = ""
  /\ Len(calls) = 3
  /\ calls[3].out = "ok"
  /\ sleeps = 2

\* C5: when the context is done while withExpBackoff is blocked in the
\* backoff sleep, the only step it takes is to return an error wrapping
\* ctx.Err(); the sleep is not completed and op is not invoked again.
C5_CancelInterruptsSleep ==
  [][(bpc = "select" /\ ctxErr # "")
       => /\ bpc' = "done"
          /\ ErrWraps(ret', CtxErrValue(ctxErr))
          /\ calls' = calls
          /\ sleeps' = sleeps]_vars

C5_Witness ==
  /\ bpc = "done"
  /\ ctxErr = "canceled"
  /\ Len(calls) = 1
  /\ sleeps = 0
  /\ ret = Wrap("request", 0, CtxErrValue("canceled"))

(* ------------------------------------------------------------------ *)
(* Properties of PollProcesses                                         *)
(* ------------------------------------------------------------------ *)
IdA == <<"a">>
IdB == <<"b">>

IsBlank(str) == TrimSpace(str) = <<>>

\* the input occurrences that are neither empty nor whitespace-only
NonBlank(ids) == SelectSeq(ids, LAMBDA x : ~IsBlank(x))

NoRequests == \A id \in DOMAIN reqs : reqs[id] = 0

\* C1: when PollProcesses returns without error, the result holds exactly
\* one QueuedProcess per input occurrence that is not empty or
\* whitespace-only, in input order, duplicates repeated.
C1_ResultPerOccurrence ==
  (ppc = "done" /\ pollErr = Nil)
    => LET nb == NonBlank(processIDs)
       IN  /\ Len(results) = Len(nb)
           /\ \A i \in 1..Len(nb) :
                 /\ i <= Len(results)
                 /\ results[i] = processMap[TrimSpace(nb[i])]

\* C6: an id whose status request failed with a non-retryable APIError is
\* recorded as failed and is no longer pending.
C6_FatalMarksFailed ==
  \A id \in DOMAIN lastOutcome :
     lastOutcome[id] = "fatal"
       => /\ processMap[id].Status = "failed"
          /\ id \notin pending

\* C7: a status request that fails with a retryable error propagates no
\* error, leaves the id pending with its recorded process unchanged, and the
\* id is visited again by the next round: every round starts over all
\* pending ids, an id leaves the round's work list only by being requested,
\* and a round is left early only when the context is done.
C7_TransientSkipped ==
  [][/\ (ppc = "round" /\ ppc' = "round")
          => \A id \in DOMAIN reqs :
                /\ (reqs'[id] = reqs[id] + 1 /\ lastOutcome'[id] = "transient")
                     => /\ id \in pending'
                        /\ processMap'[id] = processMap[id]
                        /\ pollErr' = Nil
                /\ (id \in todo /\ id \notin todo') => reqs'[id] = reqs[id] + 1
     /\ (ppc = "round" /\ reqs' # reqs) => ppc' = "round"
     /\ (ppc = "top" /\ ppc' = "round")
          => \A id \in DOMAIN lastOutcome :
                lastOutcome[id] = "transient" => id \in todo'
     /\ (ppc = "round" /\ ppc' # "round") => (todo = {} \/ ctxErr # "")]_vars

C7_Witness ==
  /\ ppc = "round"
  /\ IdA \in DOMAIN reqs
  /\ lastOutcome[IdA] = "transient"
  /\ reqs[IdA] = 1
  /\ IdA \in pending
  /\ IdA \in todo
  /\ processMap[IdA] = QueuedProcess(IdA, "queued", "")
  /\ ctxErr = ""

\* C8: when the call returns with ids still pending and the context not
\* cancelled (the ceiling elapsed), the error is nil and the result is the
\* full list, one entry per non-blank input occurrence, each carrying the
\* status last observed for its id (queued if none was).
C8_CeilingSnapshot ==
  (ppc = "done" /\ pending # {} /\ ctxErr = "")
    => LET nb == NonBlank(processIDs)
       IN  /\ pollErr = Nil
           /\ Len(results) = Len(nb)
           /\ \A i \in 1..Len(nb) :
                 /\ i <= Len(results)
                 /\ results[i].Status = lastSeen[TrimSpace(nb[i])]

\* C9 as stated: with a context already cancelled at the call, the call
\* returns the cancellation error and sends no request, for every input.
C9_AlwaysCancellationError ==
  (ppc = "done" /\ ctxAtEntry # "")
    => /\ pollErr = CtxErrValue(ctxAtEntry)
       /\ NoRequests

\* C9 (amended): with a context already cancelled at the call, no status
\* request is sent for any input; the call returns the cancellation error
\* (and no results) when at least one id is tracked and the ceiling has not
\* elapsed at the first loop test, and otherwise returns a nil error.
C9_CancelledOnEntry ==
  (ppc # "idle" /\ ctxAtEntry # "")
    => /\ NoRequests
       /\ ppc = "done"
            => IF TrackedIDs(processIDs) # {} /\ elapsed < maxWait
                 THEN pollErr = CtxErrValue(ctxAtEntry) /\ results = <<>>
                 ELSE pollErr = Nil

C9_Witness ==
  /\ ppc = "done"
  /\ ctxAtEntry = "canceled"
  /\ processIDs = <<IdA, IdB>>
  /\ pollErr = CtxErrValue("canceled")
  /\ NoRequests

\* C10: an id whose recorded status is finished or failed is not pending,
\* and from then on its recorded process (status and download URL) does not
\* change and no status request is sent for it.
C10_TerminalSticky ==
  /\ [](\A id \in DOMAIN processMap :
           processMap[id].Status \in {"finished", "failed"}
             => id \notin pending)
  /\ [][ppc # "idle"
          => \A id \in DOMAIN processMap :
                processMap[id].Status \in {"finished", "failed"}
                  => /\ processMap'[id] = processMap[id]
                     /\ reqs'[id] = reqs[id]
                     /\ id \notin todo]_vars

C10_Witness ==
  /\ ppc = "round"
  /\ DOMAIN processMap = {IdA, IdB}
  /\ processMap[IdA].Status = "failed"
  /\ IdA \notin pending
  /\ reqs[IdA] = 1
  /\ reqs[IdB] = 2
  /\ lastSeen[IdB] = "queued"

(* ------------------------------------------------------------------ *)
(* Properties of Unzip and unzipSafe                                   *)
(* ------------------------------------------------------------------ *)
\* p is root or lies below it
Within(p, root) ==
  /\ Len(p) >= Len(root)
  /\ SubSeq(p, 1, Len(root)) = root

\* where the entry's name leads from dest (<<>>-named entries lead nowhere)
Resolved(f, dest) ==
  CleanWalk(dest \o CleanWalk(f.Name.segs, <<>>, f.Name.abs), <<>>, TRUE)
Escapes(f, dest) ==
  /\ CleanWalk(f.Name.segs, <<>>, f.Name.abs) # <<>>
  /\ ~Within(Resolved(f, dest), dest)

\* the entry passes both size tests when the loop comes to it as the i-th
DeclaredTooBig(i) == archive[i].UncompressedSize64 > policy.MaxFileBytes
PassesSizes(i) ==
  /\ ~DeclaredTooBig(i)
  /\ visited[i].total <= policy.MaxTotalBytes

\* the visit of entry i ended the run with error kind k and left the disk
\* as it was
RejectedAt(i, k) ==
  /\ i = Len(visited)
  /\ zpc = "done"
  /\ zerr = Leaf(k, -1)
  /\ disk = visited[i].before

\* C11: every file and directory that Unzip or unzipSafe creates lies at the
\* destination root or below it; nothing is created outside.
C11_NothingOutsideDest ==
  \A p \in DOMAIN disk : Within(p, destDir)

C11_Witness ==
  /\ zpc = "done"
  /\ Len(visited) = 2
  /\ ".." \in {archive[1].Name.segs[k] : k \in 1..Len(archive[1].Name.segs)}
  /\ visited[1].act = "written"
  /\ visited[2].act = "unsafe"

\* C12 (as stated): an entry whose normalized name resolves outside the
\* destination makes Unzip fail with the "unsafe path" error, nothing is
\* written for it, no later entry is processed, and a one-entry archive of
\* that kind leaves the destination empty.
C12_EscapeIsUnsafePath ==
  \A i \in 1..Len(visited) :
     Escapes(archive[i], destDir) =>
        /\ RejectedAt(i, "unsafePath")
        /\ Len(archive) = 1 => DOMAIN disk = {}

\* C12 (amended): the same for an escaping entry that passes the declared
\* size test and the running total test, which the loop makes first; an
\* escaping entry always ends the run with an error and writes nothing.
C12_EscapeAfterSizeTests ==
  \A i \in 1..Len(visited) :
     Escapes(archive[i], destDir) =>
        /\ PassesSizes(i) => RejectedAt(i, "unsafePath")
        /\ \E k \in {"unsafePath", "entryTooBig", "tooLarge"} : RejectedAt(i, k)
        /\ Len(archive) = 1 => DOMAIN disk = {}

C12_Witness ==
  /\ Len(archive) = 2
  /\ Len(visited) = 2
  /\ visited[1].act = "written"
  /\ Escapes(archive[2], destDir)
  /\ zerr = Leaf("unsafePath", -1)

RECURSIVE WrittenSoFar(_)
WrittenSoFar(v) ==
  IF v = <<>> THEN 0 ELSE v[Len(v)].n + WrittenSoFar(SubSeq(v, 1, Len(v) - 1))

\* C15: during a run of Unzip the bytes extracted so far never exceed
\* MaxTotalBytes, and the entry whose declared size takes the running total
\* over the limit ends the run, earlier entries staying on disk.
C15_TotalCapped ==
  zfn = "Unzip" =>
     /\ WrittenSoFar(visited) <= policy.MaxTotalBytes
     /\ \A i \in 1..Len(visited) :
           (~DeclaredTooBig(i) /\ visited[i].total > policy.MaxTotalBytes)
              => RejectedAt(i, "tooLarge")

\* C16: an archive with more entries than MaxFiles is refused before any
\* entry is visited: nothing is created.
C16_TooManyFilesUpFront ==
  (zfn # "" /\ Len(archive) > policy.MaxFiles) =>
     /\ zpc = "done"
     /\ zerr = Leaf("tooManyFiles", -1)
     /\ visited = <<>>
     /\ DOMAIN disk = {}

C15_Witness ==
  /\ zfn = "Unzip"
  /\ Len(visited) = 2
  /\ visited[1].act = "written"
  /\ visited[1].n = policy.MaxTotalBytes
  /\ zerr = Leaf("tooLarge", -1)
  /\ disk # <<>>

C16_Witness ==
  /\ zfn = "Unzip"
  /\ Len(archive) = 2
  /\ policy.MaxFiles = 1
  /\ zerr = Leaf("tooManyFiles", -1)

IsSpecial(mode) == mode \cap {"symlink", "device", "fifo", "socket"} # {}

\* the visit of entry i created nothing, returned no error and let the loop
\* go on to the entries after it
PassedOver(i) ==
  /\ visited[i].act \in {"skipped", "noName"}
  /\ i < Len(archive) => (Len(visited) > i \/ zpc = "loop")
  /\ i = Len(visited) => (zerr = Nil /\ disk = visited[i].before)

\* C17 (as stated): without AllowSymlinks every symlink, device, FIFO or
\* socket entry is passed over: nothing is created at its path, it causes no
\* error and the entries after it are still extracted.
C17_SpecialAlwaysSkipped ==
  \A i \in 1..Len(visited) :
     (~policy.AllowSymlinks /\ IsSpecial(archive[i].Mode)) => PassedOver(i)

\* C17 (amended): that holds for the special entries that are not directory
\* entries as well, pass the two size tests and are accepted by the path
\* guard (their name leads to the destination or below it, and the
\* destination is not the root of the file system).
C17_SpecialSkippedAfterTests ==
  \A i \in 1..Len(visited) :
     (/\ ~policy.AllowSymlinks
      /\ IsSpecial(archive[i].Mode)
      /\ "dir" \notin archive[i].Mode
      /\ PassesSizes(i)
      /\ ~Escapes(archive[i], destDir)
      /\ destDir # Root) => PassedOver(i)

C17_Witness ==
  /\ ~policy.AllowSymlinks
  /\ Len(visited) = 2
  /\ "symlink" \in archive[1].Mode
  /\ visited[1].act = "skipped"
  /\ visited[2].act = "written"
  /\ zpc = "done"
  /\ zerr = Nil

(* ------------------------------------------------------------------ *)
(* Properties of DownloadAndUnzip                                      *)
(* ------------------------------------------------------------------ *)
\* the i-th attempt received a body whose length differs from the declared
\* Content-Length
Mismatch(i) == calls[i].resp \in {"short", "long"}

\* the i-th attempt failed with the retryable short-read signal
ShortReadSignal(i) ==
  /\ ErrorsIs(calls[i].err, "unexpectedEOF")
  /\ calls[i].out = "retryable"

\* the i-th attempt failed with the error downloadOnce has for a body of the
\* wrong length
IncompleteDownload(i) ==
  /\ ShortReadSignal(i)
  /\ calls[i].err[1].label = "incomplete download"

\* C18 (as stated): an attempt whose body length differs from the declared
\* Content-Length fails with the retryable short-read error and is retried,
\* and when the attempt after it returns a complete valid ZIP the call
\* succeeds after exactly two GETs.
C18_ShortReadRetriedTwoGets ==
  \A i \in 1..Len(calls) :
     (dpc # "idle" /\ Mismatch(i)) =>
        /\ IncompleteDownload(i)
        /\ dpc = "done" => Len(calls) > i
        /\ (dpc = "done" /\ Len(calls) > i /\ calls[i + 1].resp = "zip")
              => (dret = Nil /\ gets = 2)

\* C18 (amended): such an attempt fails with the retryable short-read
\* error; it is retried when attempts are left (attempt < MaxRetries) and
\* the context stays live; when it was the first attempt and the second one
\* returns a complete valid ZIP, the retry loop ends after exactly two GETs
\* and the call returns nil exactly if the extraction of that ZIP succeeds.
C18_ShortReadRetriedWhileAllowed ==
  \A i \in 1..Len(calls) :
     (dpc # "idle" /\ Mismatch(i)) =>
        /\ IncompleteDownload(i)
        /\ (dpc = "done" /\ ctxErr = "" /\ calls[i].arg < MaxRetries)
              => Len(calls) > i
        /\ (i = 1 /\ Len(calls) > 1 /\ calls[2].resp = "zip")
              => /\ Len(calls) = 2
                 /\ gets = 2
                 /\ bpc = "done" /\ ret = Nil
                 /\ dpc = "done" => (dret = Nil <=> zerr = Nil)

C18_Witness ==
  /\ dpc = "done"
  /\ Len(calls) = 2
  /\ calls[1].resp = "short"
  /\ calls[2].resp = "zip"
  /\ gets = 2
  /\ dret = Nil
  /\ disk # <<>>

\* C19: an attempt whose body arrived in full but does not open as a ZIP
\* fails with the same retryable signal as a short read, so that, while
\* attempts are left and the context is live, the loop downloads again
\* instead of returning the failure.
C19_CorruptZipRetried ==
  \A i \in 1..Len(calls) :
     (dpc # "idle" /\ calls[i].resp = "notzip") =>
        /\ ShortReadSignal(i)
        /\ (dpc = "done" /\ ctxErr = "" /\ calls[i].arg < MaxRetries)
              => Len(calls) > i
        /\ gets = Len(calls)

C19_Witness ==
  /\ dpc = "done"
  /\ Len(calls) = 2
  /\ calls[1].resp = "notzip"
  /\ calls[2].resp = "zip"
  /\ gets = 2
  /\ dret = Nil

\* C20: once extraction has failed, DownloadAndUnzip issues no further
\* download request and does not go back into the retry loop; it returns
\* the extraction error, wrapped.
C20_UnzipErrorNotRetried ==
  /\ [](dpc = "done" /\ zerr # Nil => dret = Wrap("unzip", 0, zerr))
  /\ [][(dpc # "idle" /\ zpc = "done" /\ zerr # Nil)
          => (gets' = gets /\ calls' = calls /\ bpc' = bpc
              /\ dpc' \in {"unzip", "done"})]_vars

C20_Witness ==
  /\ dpc = "done"
  /\ zerr = Leaf("unsafePath", -1)
  /\ dret = Wrap("unzip", 0, zerr)
  /\ gets = 1
  /\ MaxRetries > 0

(* ------------------------------------------------------------------ *)
(* Properties of package apierr                                        *)
(* ------------------------------------------------------------------ *)
\* a call of IsRetryable has returned
RetryableAnswered == fpc = "done" /\ func = "IsRetryable"
\* the innermost error of the chain handed to the running call
Innermost == farg[Len(farg)]
\* the number of fmt.Errorf layers around it
Wrappers == Len(farg) - 1

\* C21: IsRetryable answers true for an APIError whose status is one of
\* 408, 425, 429, 500, 502, 503, 504, bare or wrapped, and false for an
\* APIError with any other 4xx status.
C21_RetryableStatuses ==
  (RetryableAnswered /\ farg # Nil /\ Innermost.kind = "api") =>
     /\ Innermost.status \in {408, 425, 429, 500, 502, 503, 504} => fret = TRUE
     /\ (Innermost.status \in 400..499 /\ Innermost.status \notin {408, 425, 429})
          => fret = FALSE

C21_Witness ==
  /\ RetryableAnswered /\ farg # Nil
  /\ Innermost.kind = "api" /\ Innermost.status = 429
  /\ Wrappers >= 1
  /\ fret = TRUE

\* C22: IsRetryable answers false for the context cancellation error and
\* for the context deadline-exceeded error, bare or wrapped.
C22_ContextErrorsNotRetryable ==
  (RetryableAnswered /\ farg # Nil /\ Innermost.kind \in {"canceled", "deadline"})
     => fret = FALSE

\* C23: IsRetryable answers true for unexpected EOF, EOF, closed pipe,
\* connection reset and connection aborted, bare or wrapped.
C23_FlakyIORetryable ==
  (RetryableAnswered /\ farg # Nil
     /\ Innermost.kind \in {"unexpectedEOF", "EOF", "closedPipe",
                            "ECONNRESET", "ECONNABORTED"})
     => fret = TRUE

\* C24: every result r of JitteredBackoff(base) lies in
\* [base/2, base/2 + base) for base > 0, and in [150ms, 450ms) for
\* base <= 0.
C24_JitterRange ==
  (fpc = "done" /\ func = "JitteredBackoff") =>
     /\ farg > 0 => ((farg \div 2) <= fret /\ fret < (farg \div 2) + farg)
     /\ farg <= 0 => (150 <= fret /\ fret < 450)

\* a call of Parse has returned
Parsed == fpc = "done" /\ func = "Parse"
\* the body with all surrounding white space removed
TrimmedArg == [lead |-> <<>>, doc |-> farg.slurp.doc, trail |-> <<>>]
\* the standard phrase of the status handed to the call
Phrase ==
  CASE farg.status = 400 -> "Bad Request"
    [] farg.status = 502 -> "Bad Gateway"
    [] OTHER -> ""
\* the body decodes: it is valid JSON framed by JSON white space only
Decodes ==
  /\ farg.slurp.doc.valid
  /\ farg.slurp.doc.first \in {"{", "["}
  /\ \A i \in 1..Len(farg.slurp.lead) : farg.slurp.lead[i] \in {" ", "\t", "\n", "\r"}
  /\ \A i \in 1..Len(farg.slurp.trail) : farg.slurp.trail[i] \in {" ", "\t", "\n", "\r"}
\* the decoded top-level object (no keys when the value is not an object)
Top == IF farg.slurp.doc.val.t = "obj" THEN farg.slurp.doc.val.o ELSE <<>>
IsString(o, k) == k \in DOMAIN o /\ o[k].t = "str"
IsObject(o, k) == k \in DOMAIN o /\ o[k].t = "obj"
Numeric(v) == v.t = "num" \/ (v.t = "str" /\ v.s \in {"400", " 429 ", "-7"})
IsNumeric(o, k) == k \in DOMAIN o /\ Numeric(o[k])
IntOf(v) ==
  IF v.t = "num" THEN v.n
  ELSE CASE v.s = "400" -> 400 [] v.s = " 429 " -> 429 [] v.s = "-7" -> 0 - 7
\* the details rule of shapes (b) and (c)
DetailsOf(o) ==
  IF IsObject(o, "details") THEN o["details"].o
  ELSE IF "details" \in DOMAIN o THEN [k \in {"details"} |-> o["details"]]
  ELSE [k \in {"reason"} |-> [t |-> "str", n |-> 0, s |-> "server error without details", o |-> <<>>]]
NonEmptyString(o, k) == IsString(o, k) /\ o[k].s # ""

ShapeA == IsString(Top, "message") /\ IsNumeric(Top, "statusCode") /\ IsString(Top, "error")
ShapeB == IsObject(Top, "error")
\* shape (b) read as failing on a nested code that is present but not numeric
ShapeB_Strict ==
  /\ IsObject(Top, "error")
  /\ "code" \in DOMAIN Top["error"].o => Numeric(Top["error"].o["code"])
ShapeC == IsString(Top, "message") /\ (IsNumeric(Top, "code") \/ IsNumeric(Top, "errorCode"))

FieldsA ==
  /\ fret.Code = IntOf(Top["statusCode"])
  /\ fret.Message = Top["message"].s
  /\ fret.Reason = Top["error"].s
  /\ fret.Details = Top
FieldsB ==
  LET e == Top["error"].o
  IN  /\ fret.Code = IF IsNumeric(e, "code") THEN IntOf(e["code"]) ELSE farg.status
      /\ fret.Message = IF NonEmptyString(e, "message") THEN e["message"].s ELSE Phrase
      /\ fret.Reason = ""
      /\ fret.Details = DetailsOf(e)
FieldsC ==
  /\ fret.Code = IF IsNumeric(Top, "code") THEN IntOf(Top["code"])
                 ELSE IntOf(Top["errorCode"])
  /\ fret.Message = Top["message"].s
  /\ fret.Reason = ""
  /\ fret.Details = DetailsOf(Top)
FieldsD ==
  /\ fret.Code = 0
  /\ fret.Message = IF NonEmptyString(Top, "message") THEN Top["message"].s ELSE Phrase
  /\ fret.Reason = IF NonEmptyString(Top, "error") THEN Top["error"].s
                   ELSE "unhandled error format"
  /\ fret.Details = Top

\* C28 as stated: the four shapes are tried in the order (a), (b), (c),
\* (d), the fields of the first matching shape are returned, and a field
\* that is not numeric-coercible makes its shape fail (for (b): the nested
\* code) so that the next shape is tried.
C28_FirstShapeStrict ==
  (Parsed /\ Decodes) =>
     IF ShapeA THEN FieldsA
     ELSE IF ShapeB_Strict THEN FieldsB
     ELSE IF ShapeC THEN FieldsC
     ELSE FieldsD

\* C28 amended: the four shapes are tried in the order (a), (b), (c), (d)
\* and the fields of the first matching shape are returned; a statusCode
\* that is not numeric-coercible fails (a), code and errorCode both not
\* numeric-coercible fail (c); (b) matches whenever error is an object and
\* takes the HTTP status as code when the nested code is not coercible.
C28_FirstShapeWins ==
  (Parsed /\ Decodes) =>
     IF ShapeA THEN FieldsA
     ELSE IF ShapeB THEN FieldsB
     ELSE IF ShapeC THEN FieldsC
     ELSE FieldsD

C28_Witness ==
  /\ Parsed /\ Decodes
  /\ IsString(Top, "message") /\ IsString(Top, "error")
  /\ "statusCode" \in DOMAIN Top /\ ~Numeric(Top["statusCode"])
  /\ IsNumeric(Top, "code") /\ Top["code"].t = "str"
  /\ fret.Code = 429 /\ fret.Reason = ""

\* C29: Parse returns for every body and status an error value whose
\* status is the given status and whose raw text is the body without its
\* surrounding white space; an empty or non-JSON body gives the reason
\* "non-json error body", an undecodable JSON body gives "invalid json in
\* error body", both with the standard status phrase as message.
C29_ParseTotal ==
  Parsed =>
     /\ fret.Status = farg.status
     /\ fret.Raw = TrimmedArg
     /\ farg.slurp.doc.first \notin {"{", "["} =>
          (fret.Reason = "non-json error body" /\ fret.Message = Phrase)
     /\ (farg.slurp.doc.first \in {"{", "["} /\ ~farg.slurp.doc.valid) =>
          (fret.Reason = "invalid json in error body" /\ fret.Message = Phrase)

C29_Witness ==
  /\ Parsed
  /\ farg.slurp.lead # <<>> /\ farg.slurp.trail # <<>>
  /\ farg.slurp.doc.first = "{" /\ ~farg.slurp.doc.valid
  /\ fret.Reason = "invalid json in error body"
  /\ fret.Raw.lead = <<>> /\ fret.Raw.trail = <<>>

(* ------------------------------------------------------------------ *)
(* Properties of the backoff base of withExpBackoff                    *)
(* ------------------------------------------------------------------ *)
\* the initial and the maximum backoff after the floors of the entry
EffInitial == IF InitialBackoff <= 0 THEN 50 ELSE InitialBackoff
EffMax == IF MaxBackoff <= 0 THEN 2000 ELSE MaxBackoff
\* withExpBackoff has been entered
InBackoff == bpc # "idle"
\* the base does not shrink from one state of a run to the next
BaseGrows == (InBackoff /\ InBackoff') => backoff' >= backoff

\* C30 as stated: for every InitialBackoff / MaxBackoff configuration the
\* backoff base never decreases from attempt to attempt and never exceeds
\* the maximum backoff.
C30_BaseMonotoneCapped ==
  /\ [](InBackoff => backoff <= EffMax)
  /\ [][BaseGrows]_vars

\* C30 amended: when the initial backoff does not exceed the maximum
\* backoff (both after the floors) the base never decreases and never
\* exceeds the maximum; otherwise the base is the initial backoff until
\* the first sleep has ended and the maximum from then on.
C30_BaseMonotoneCappedWhenOrdered ==
  /\ []((InBackoff /\ EffInitial <= EffMax) => backoff <= EffMax)
  /\ [][EffInitial <= EffMax => BaseGrows]_vars
  /\ []((InBackoff /\ EffInitial > EffMax) =>
          backoff = IF sleeps = 0 THEN EffInitial ELSE EffMax)

C30_Witness ==
  /\ InBackoff
  /\ EffInitial < EffMax
  /\ sleeps >= 2
  /\ backoff = EffMax
  /\ backoff > 2 * EffInitial

(* ------------------------------------------------------------------ *)
(* Properties of the flows built on doWithRetry                        *)
(* ------------------------------------------------------------------ *)
\* the attempts of doWithRetry among the recorded calls
RequestCalls == {i \in 1..Len(calls) : "status" \in DOMAIN calls[i]}
\* attempt i met a response with a status outside 200..299
Non2xx(i) ==
  /\ i \in RequestCalls
  /\ calls[i].resp = "reply"
  /\ (calls[i].status < 200 \/ calls[i].status >= 300)
\* errors.As(err, &apiErr) succeeds with apiErr.Status = st
ExtractsStatus(err, st) ==
  /\ \E i \in 1..Len(err) : err[i].kind = "api"
  /\ LET first == CHOOSE i \in 1..Len(err) :
                     /\ err[i].kind = "api"
                     /\ \A j \in 1..(i - 1) : err[j].kind # "api"
     IN  err[first].status = st
\* the flow has returned the error of its kick-off request, which
\* doWithRetry gave up on after the last attempt
KickoffGaveUp ==
  /\ apc = "done"
  /\ processIDs = <<>>
  /\ calls # <<>>
  /\ calls[Len(calls)].out \in {"fatal", "retryable"}
  /\ (calls[Len(calls)].out = "fatal" \/ calls[Len(calls)].arg >= MaxRetries)

\* C25: every response with a status outside 200..299 makes doRequest
\* return an APIError, and nothing else, whose Status is the status of the
\* response; when doWithRetry gives up on such an attempt, errors.As still
\* finds an APIError with that status in the error the flow returns, below
\* the labels of the retry loop and of the call site.
C25_TypedErrorSurvivesWrapping ==
  /\ \A i \in RequestCalls :
        Non2xx(i) =>
          /\ Len(calls[i].err) = 1
          /\ calls[i].err[1].kind = "api"
          /\ calls[i].err[1].status = calls[i].status
  /\ (KickoffGaveUp /\ Non2xx(Len(calls))) =>
        /\ ExtractsStatus(aret.err, calls[Len(calls)].status)
        /\ Len(aret.err) = 3
        /\ aret.err[1].kind = "wrap"
        /\ aret.err[2].kind = "wrap"

\* FetchBundle met 503 and then 429 with an error payload whose code is not
\* the status, gave up, and returned "fetch bundle: request (attempt 2):"
\* around the APIError with status 429
C25_Witness ==
  /\ flow = "FetchBundle"
  /\ KickoffGaveUp
  /\ Len(calls) = 2
  /\ Non2xx(1)
  /\ calls[1].status = 503
  /\ Non2xx(2)
  /\ calls[2].status = 429
  /\ Len(aret.err) = 3
  /\ aret.err[1].label = "fetch bundle"
  /\ aret.err[2].label = "request"
  /\ aret.err[2].n = 2
  /\ aret.err[3].kind = "api"
  /\ aret.err[3].status = 429

\* the status PollProcesses saw last for the one process of the flow
PolledFinished ==
  /\ DOMAIN lastSeen # {}
  /\ \A id \in DOMAIN lastSeen : lastSeen[id] = "finished"
\* the context was done when a request was made, when PollProcesses was
\* entered, or while the retry loop or the polling loop waited
CancelNoticed ==
  \/ \E i \in RequestCalls :
        calls[i].resp = "neterr" /\ calls[i].err[Len(calls[i].err)].kind \in {"canceled", "deadline"}
  \/ ctxAtEntry # ""
  \/ pollErr # Nil
  \/ (ret # Nil /\ ret[Len(ret)].kind \in {"canceled", "deadline"} /\ processIDs = <<>>)
\* FetchBundleAsync has returned, to its caller or to doDownload
FetchReturned ==
  \/ flow \in {"FetchBundleAsync", "Upload"} /\ apc = "done"
  \/ flow = "DownloadAsync" /\ apc \in {"fetched", "download", "done"}
\* ... and what it returned was an error
FetchFailed ==
  \/ flow \in {"FetchBundleAsync", "Upload"} /\ apc = "done" /\ aret.err # Nil
  \/ /\ flow = "DownloadAsync"
     /\ apc = "done"
     /\ (processIDs = <<>> \/ pollErr # Nil \/ ~PolledFinished)

RECURSIVE DeclaredSum(_)
DeclaredSum(a) ==
  IF a = <<>> THEN 0 ELSE Head(a).UncompressedSize64 + DeclaredSum(Tail(a))

\* the run is over an archive that is a ZIP, whose entries store what they
\* declare and which stays within the limits of the policy in force
HonestWithinLimits ==
  /\ zpc = "done"
  /\ tmpZip.kind = "zip"
  /\ archive = tmpZip.files
  /\ archive # <<>>
  /\ Len(archive) <= policy.MaxFiles
  /\ \A i \in 1..Len(archive) :
        /\ archive[i].stored = archive[i].UncompressedSize64
        /\ archive[i].UncompressedSize64 <= policy.MaxFileBytes
  /\ DeclaredSum(archive) <= policy.MaxTotalBytes

\* where entry i belongs: the destination joined with its cleaned name
Place(i) == Resolved(archive[i], destDir)
\* entry i is extracted as a file / as a directory / passed over
AsDir(i) == "dir" \in archive[i].Mode
AsFile(i) ==
  /\ ~AsDir(i)
  /\ policy.AllowSymlinks \/ "symlink" \notin archive[i].Mode
  /\ archive[i].Mode \cap {"device", "fifo", "socket"} = {}
RegularEntry(i) == archive[i].Mode = {}
\* p equals q or is an ancestor of q
PrefixOf(p, q) == Len(p) <= Len(q) /\ SubSeq(q, 1, Len(p)) = p
\* the name of entry i is a plain relative path: not empty once cleaned,
\* and without ".." left in it
PlainName(i) ==
  /\ RelName(archive[i].Name) # <<>>
  /\ \A k \in 1..Len(RelName(archive[i].Name)) :
        RelName(archive[i].Name)[k] # ".."
\* entry i is on disk at its place with its bytes, below directories
Reproduced(i) ==
  /\ Place(i) \in DOMAIN disk
  /\ disk[Place(i)] = [kind |-> "file", bytes |-> archive[i].stored, from |-> i]
  /\ \A k \in (Len(destDir) + 1)..(Len(Place(i)) - 1) :
        /\ SubSeq(Place(i), 1, k) \in DOMAIN disk
        /\ disk[SubSeq(Place(i), 1, k)].kind = "dir"

\* C27 as stated: an archive that is a ZIP with honest sizes, within the
\* limits and with plain relative names is extracted without error, and
\* every regular-file entry is then on disk at its relative path under the
\* destination with its bytes, below directories made for it.
C27_RoundTripAnyArchive ==
  (HonestWithinLimits /\ \A i \in 1..Len(archive) : PlainName(i)) =>
     /\ zerr = <<>>
     /\ \A i \in 1..Len(archive) : RegularEntry(i) => Reproduced(i)

\* the destination is not the root, every name resolves to the destination
\* or below it, and no entry extracted as a file sits at the destination,
\* at the place of another extracted entry or above one
NoClash ==
  /\ destDir # <<>>
  /\ \A i \in 1..Len(archive) :
        /\ PrefixOf(destDir, Place(i))
        /\ AsFile(i) =>
              /\ RelName(archive[i].Name) # <<>>
              /\ Place(i) # destDir
              /\ \A j \in 1..Len(archive) :
                    (j # i /\ (AsFile(j) \/ AsDir(j))
                       /\ RelName(archive[j].Name) # <<>>) =>
                      ~PrefixOf(Place(i), Place(j))

\* C27 (amended): into a destination other than the root, an archive with
\* honest sizes, within the limits, whose names resolve to the destination
\* or below and whose file entries do not collide with other entries is
\* extracted without error; every regular-file entry is on disk at its
\* resolved path with exactly its bytes, below directories made for it
\* whether or not the archive has entries for them, and total is the sum
\* of the declared sizes.
C27_RoundTrip ==
  (HonestWithinLimits /\ NoClash) =>
     /\ zerr = <<>>
     /\ total = DeclaredSum(archive)
     /\ \A i \in 1..Len(archive) : RegularEntry(i) => Reproduced(i)

\* "a/b" without an entry for "a", then "/b": both are on disk below the
\* destination, "a" was made as a directory
C27_Witness ==
  /\ HonestWithinLimits
  /\ NoClash
  /\ zerr = <<>>
  /\ Len(archive) = 2
  /\ archive[1].Name = [abs |-> FALSE, segs |-> <<"a", "b">>]
  /\ archive[2].Name = [abs |-> TRUE, segs |-> <<"b">>]
  /\ RegularEntry(1)
  /\ RegularEntry(2)
  /\ disk[destDir \o <<"a">>].kind = "dir"
  /\ disk[destDir \o <<"a", "b">>] = [kind |-> "file", bytes |-> 1, from |-> 1]
  /\ disk[destDir \o <<"b">>] = [kind |-> "file", bytes |-> 2, from |-> 2]

(* ------------------------------------------------------------------ *)
(* Properties of the sleeps of withExpBackoff                          *)
(* ------------------------------------------------------------------ *)
\* values JitteredBackoff can hand back, wrapped ones included
JitterSamples == {-(2^(DurationBits - 1)), -1, 0, 1, EffMax, EffMax + 1,
                  2^(DurationBits - 1) - 1}

\* C31: while withExpBackoff sleeps between two attempts, the delay of the
\* timer is at least one millisecond and at most the effective maximum
\* backoff (MaxBackoff, or 2 s when MaxBackoff <= 0); the clamp gives
\* such a delay for any value of the jitter, negative or zero included.
C31_DelayPositiveCapped ==
  /\ bpc \in {"select", "raced"} => (delay >= 1 /\ delay <= EffMax)
  /\ InBackoff =>
        \A d \in JitterSamples :
           /\ ClampDelay(d, EffMax) >= 1
           /\ ClampDelay(d, EffMax) <= EffMax

\* the second sleep of a call configured with InitialBackoff 2 above
\* MaxBackoff 1: the base is 1 by now, its jitter is floored and the timer
\* is armed with 1, the maximum
C31_Witness ==
  /\ bpc = "select"
  /\ sleeps = 1
  /\ MaxBackoff = 1
  /\ InitialBackoff = 2
  /\ delay = 1
  /\ Len(calls) = 2

(* ------------------------------------------------------------------ *)
(* Cancellation and the attempts of withExpBackoff                     *)
(* ------------------------------------------------------------------ *)
\* C32 as stated: no invocation of op starts once the context is done,
\* the case of a context done on entry and the case of the timer and the
\* signal being ready together included.
C32_NoAttemptAfterCancel ==
  \A i \in 1..Len(calls) : "ctx" \in DOMAIN calls[i] => calls[i].ctx = ""

\* C32 (amended): a context that becomes done while withExpBackoff is
\* blocked in the backoff sleep ends the call there: the next step returns
\* and op is not invoked again.  The context is tested nowhere else: with
\* a context that is done on entry or before an attempt, the call does not
\* return before it has invoked op.
C32_CancelActsInSleepOnly ==
  [][/\ (bpc = "select" /\ ctxErr # "")
          => (bpc' = "done" /\ calls' = calls /\ attempt' = attempt)
     /\ (bpc \in {"idle", "op"} /\ ctxErr # "")
          => (Len(calls') > Len(calls) \/ bpc' = "op")
     /\ (bpc = "raced")
          => (calls' = calls /\ bpc' \in {"done", "op"})]_vars

\* op was invoked a second time with a context whose deadline had passed
\* after the first sleep had ended; the next sleep returned the error of
\* the context
C32_Witness ==
  /\ bpc = "done"
  /\ Len(calls) = 2
  /\ sleeps = 1
  /\ calls[1].ctx = ""
  /\ calls[2].ctx = "deadline"
  /\ calls[2].out = "retryable"
  /\ Len(ret) >= 1
  /\ ret[Len(ret)].kind = "deadline"
  /\ ret[Len(ret)].at = -1

(* ------------------------------------------------------------------ *)
(* The sleeps of PollProcesses                                         *)
(* ------------------------------------------------------------------ *)
\* the initial wait and the ceiling PollProcesses works with
EffWait == IF PollInitialWait <= 0 THEN 1000 ELSE PollInitialWait
EffCeiling ==
  LET m == IF PollMaxWait <= 0 THEN 120000 ELSE PollMaxWait
  IN  IF m < EffWait THEN EffWait ELSE m
\* rounds made so far: every id still pending was requested once per round
RoundsOf(id) == reqs[id]
LesserOf(a, b) == IF a < b THEN a ELSE b

\* C33 as stated, with the configured values: no sleep is scheduled to
\* end later than PollMaxWait after the call started, and the first sleep
\* is PollInitialWait unless the budget is shorter.
C33_SleepWithinPollMaxWait ==
  ppc = "sleep" =>
    /\ elapsed + sleepFor <= PollMaxWait
    /\ \A id \in pending :
          RoundsOf(id) = 1 =>
            sleepFor = LesserOf(PollInitialWait, PollMaxWait - elapsed)

\* C33 (amended): the sleep after round k is the initial wait doubled k-1
\* times or what is left of the budget, whichever is less; it is positive
\* and is scheduled to end no later than the ceiling after the call
\* started.  The initial wait is PollInitialWait (1 s when that is <= 0),
\* the ceiling is PollMaxWait (120 s when that is <= 0), raised to the
\* initial wait when it is below it.
C33_SleepWithinCeiling ==
  ppc = "sleep" =>
    /\ sleepFor >= 1
    /\ elapsed + sleepFor <= EffCeiling
    /\ pending # {}
    /\ \A id \in pending :
          /\ RoundsOf(id) >= 1
          /\ sleepFor = LesserOf(EffWait * 2^(RoundsOf(id) - 1),
                                 EffCeiling - elapsed)

\* the sleep after the second round is cut to the budget that is left
C33_Witness ==
  /\ ppc = "sleep"
  /\ PollInitialWait = 1
  /\ \E id \in pending : RoundsOf(id) = 2
  /\ sleepFor = 1
  /\ elapsed + sleepFor = PollMaxWait

(* ------------------------------------------------------------------ *)
(* PollProcesses returns                                                *)
(* ------------------------------------------------------------------ *)
\* C34: every call of PollProcesses eventually returns, whatever the
\* status requests answer and whether or not the context is cancelled,
\* provided every request returns.
C34_PollReturns == <>(ppc = "done")

\* the call returned at the ceiling, after more than one round in which no
\* request succeeded and with no process terminal
C34_Witness ==
  /\ ppc = "done"
  /\ pollErr = Nil
  /\ ctxErr = ""
  /\ pending # {}
  /\ elapsed >= maxWait
  /\ \A id \in pending :
        /\ reqs[id] >= 2
        /\ lastOutcome[id] \in {"transient", "fatal", "other"}
        /\ processMap[id] = QueuedProcess(id, "queued", "")

(* ------------------------------------------------------------------ *)
(* Cancellation during PollProcesses                                    *)
(* ------------------------------------------------------------------ *)
\* the context is cancelled and PollProcesses stands before the next fetch
\* of a round, or is parked in the inter-round select
CancelledMidPoll ==
  /\ ctxErr # ""
  /\ \/ ppc = "round" /\ todo # {}
     \/ ppc = "sleep"

\* C35: when the context is cancelled between two fetches of a round or
\* during the inter-round sleep, the next step of PollProcesses returns the
\* context's error and a nil list, whatever statuses it has recorded, and
\* sends no further request.
C35_CancelDiscardsProgress ==
  [][CancelledMidPoll =>
       /\ ppc' = "done"
       /\ pollErr' = CtxErrValue(ctxErr)
       /\ results' = <<>>
       /\ reqs' = reqs]_vars

\* cancelled in the sleep after a round in which one process was seen
\* finished and another is still pending: nothing is returned
C35_Witness ==
  /\ ppc = "done"
  /\ ctxAtEntry = ""
  /\ ctxErr = "canceled"
  /\ pollErr = CtxErrValue("canceled")
  /\ results = <<>>
  /\ todo = {}
  /\ pending # {}
  /\ \E id \in DOMAIN processMap :
        /\ id \notin pending
        /\ processMap[id].Status = "finished"
        /\ \E i \in 1..Len(processIDs) : processIDs[i] = id

(* ------------------------------------------------------------------ *)
(* Failing status requests and their siblings                           *)
(* ------------------------------------------------------------------ *)
\* the step is a status request for id that failed
FetchFailedFor(id) ==
  /\ reqs'[id] = reqs[id] + 1
  /\ lastOutcome'[id] \in {"transient", "fatal", "other"}

\* C36: a failed status request leaves the round running over the rest of
\* its work list, returns nothing and drops no id; and when the call
\* returns without error, every input occurrence of an id whose process
\* was seen finished is reported finished, whatever the other ids' requests
\* produced.
C36_FailureSparesSiblings ==
  /\ [][\A id \in DOMAIN reqs :
          FetchFailedFor(id)
            => /\ ppc' = "round"
               /\ pollErr' = Nil
               /\ todo' = todo \ {id}
               /\ pending' = pending]_vars
  /\ []((ppc = "done" /\ pollErr = Nil)
          => LET nb == NonBlank(processIDs)
             IN  \A i \in 1..Len(nb) :
                    lastSeen[TrimSpace(nb[i])] = "finished"
                      => /\ i <= Len(results)
                         /\ results[i].Status = "finished")

(* ------------------------------------------------------------------ *)
(* The ProcessID of a recorded process                                  *)
(* ------------------------------------------------------------------ *)
\* the step is a status request for id whose response was decoded
FetchDecodedFor(id) ==
  /\ reqs'[id] = reqs[id] + 1
  /\ lastOutcome'[id] = "ok"

BadJSONReply(i) ==
  /\ calls[i].resp = "reply"
  /\ calls[i].status >= 200
  /\ calls[i].status < 300
  /\ calls[i].bad # ""

\* C37: the attempt that receives a 2xx response whose body is not valid
\* JSON (a document cut off in the middle included) is the last one: its
\* error is the decode error, no request follows, doWithRetry returns that
\* error under its attempt label and the flow hands it to the caller; when
\* it answers the first request, exactly one request was made.
C37_DecodeErrorTerminal ==
  \A i \in RequestCalls :
     BadJSONReply(i)
       => /\ calls[i].err =
               <<Layer("wrap", 0, "none", "decode response", 0, -1),
                 Layer("jsonSyntax", 0, "none", "", 0, i - 1)>>
          /\ posts = i
          /\ \A j \in RequestCalls : j <= i
          /\ bpc = "done"
          /\ ret = <<Layer("wrap", 0, "none", "request", i, -1)>>
                     \o calls[i].err
          /\ apc \in {"kickoff", "done"}
          /\ apc = "done"
               => aret.err =
                    <<Layer("wrap", 0, "none", CallSite(flow), 0, -1)>> \o ret

\* Upload got the cut-off document of the test on its first request and
\* returned after that one request
C37_Witness ==
  /\ apc = "done"
  /\ flow = "Upload"
  /\ MaxRetries >= 1
  /\ posts = 1
  /\ RequestCalls = {1}
  /\ calls[1].bad = CutOffDoc.text
  /\ calls[1].status = 200
  /\ aret.err # Nil
  /\ aret.err[Len(aret.err)].kind = "jsonSyntax"

(* ------------------------------------------------------------------ *)
(* The request body over the attempts                                   *)
(* ------------------------------------------------------------------ *)
\* C38: every attempt of doWithRetry sends the whole body the caller's
\* reader held, with its length declared: no attempt sends an empty or
\* partial body.
C38_SameBodyEveryAttempt ==
  \A i \in RequestCalls :
     /\ calls[i].body = RequestBody(flow)
     /\ calls[i].length = Len(RequestBody(flow))
     /\ calls[i].body # <<>>
     /\ \A j \in RequestCalls : calls[j].body = calls[i].body

\* a retry was sent after a failed first attempt, with the same body
C38_Witness ==
  /\ posts = 2
  /\ RequestCalls = {1, 2}
  /\ calls[1].out = "retryable"
  /\ calls[1].status = 503
  /\ calls[2].arg = 1
  /\ calls[2].body = <<"{", "u", "}">>
  /\ flow = "Upload"

(* ------------------------------------------------------------------ *)
(* When DownloadAndUnzip extracts                                       *)
(* ------------------------------------------------------------------ *)
\* unzipSafe was entered, or something stands in the destination
Extracting == zpc # "idle" \/ disk # <<>> \/ visited # <<>>

\* C39: DownloadAndUnzip enters unzipSafe at most once per call, and only
\* after the retry loop returned nil: its last attempt got a 2xx response
\* whose body matched the declared Content-Length (if one was declared) and
\* opened as a ZIP, and that file is the one extracted.  Once extraction
\* has begun no download attempt follows.  A call whose loop ended with an
\* error (retries exhausted, a non-retryable error, the context done)
\* returns with nothing extracted.
C39_ExtractOnceAfterValidDownload ==
  /\ [](Extracting
          => /\ dpc \in {"unzip", "done"}
             /\ bpc = "done"
             /\ ret = Nil
             /\ calls # <<>>
             /\ calls[Len(calls)].out = "ok"
             /\ calls[Len(calls)].resp = "zip"
             /\ calls[Len(calls)].tmp = tmpZip
             /\ tmpZip.kind = "zip"
             /\ archive = tmpZip.files)
  /\ []((dpc = "done" /\ ret # Nil) => ~Extracting)
  /\ []((dpc = "done" /\ bundleURL # <<>> /\ TrimSpace(bundleURL) = <<>>)
          => ~Extracting)
  /\ [][zpc # "idle"
         => /\ zpc' # "idle"
            /\ archive' = archive
            /\ zi' >= zi
            /\ calls' = calls
            /\ gets' = gets]_vars

\* extraction ran after a retried download: the first attempt was cut
\* short, the second brought the archive, and a file was written
C39_Witness ==
  /\ dpc = "done"
  /\ dret = Nil
  /\ zpc = "done"
  /\ Len(calls) = 2
  /\ calls[1].resp = "short"
  /\ calls[2].resp = "zip"
  /\ gets = 2
  /\ disk # <<>>

====
